---- MODULE Spec2Model ----
(***************************************************************************)
(* A model of enfl (github.com/islamghany/enfl): loading a configuration   *)
(* structure from command-line flags, environment variables, .env files    *)
(* and declared defaults.                                                  *)
(*                                                                         *)
(* Go strings are modelled as sequences of one-character strings, so that  *)
(* splitting, trimming, parsing and formatting are computed, not assumed.  *)
(***************************************************************************)
EXTENDS Integers, Sequences, FiniteSets, TLC

(***************************************************************************)
(* Characters and the parts of package strings the code uses               *)
(***************************************************************************)
DigitChars == <<"0", "1", "2", "3", "4", "5", "6", "7", "8", "9">>

UpperChars == <<"A", "B", "C", "D", "E", "F", "G", "H", "I", "J", "K", "L", "M",
                "N", "O", "P", "Q", "R", "S", "T", "U", "V", "W", "X", "Y", "Z">>

LowerChars == <<"a", "b", "c", "d", "e", "f", "g", "h", "i", "j", "k", "l", "m",
                "n", "o", "p", "q", "r", "s", "t", "u", "v", "w", "x", "y", "z">>

Range(s) == {s[i] : i \in 1..Len(s)}

IsDigit(c) == c \in Range(DigitChars)

IsUpper(c) == c \in Range(UpperChars)

IsLower(c) == c \in Range(LowerChars)

IndexIn(c, table) == CHOOSE i \in 1..Len(table) : table[i] = c

DigitVal(c) == IndexIn(c, DigitChars) - 1

ToUpperChar(c) == IF IsLower(c) THEN UpperChars[IndexIn(c, LowerChars)] ELSE c

ToLowerChar(c) == IF IsUpper(c) THEN LowerChars[IndexIn(c, UpperChars)] ELSE c

RECURSIVE ToUpper(_)
\* strings.ToUpper
ToUpper(s) ==
    IF s = <<>> THEN <<>> ELSE <<ToUpperChar(Head(s))>> \o ToUpper(Tail(s))

RECURSIVE ToLower(_)
\* strings.ToLower
ToLower(s) ==
    IF s = <<>> THEN <<>> ELSE <<ToLowerChar(Head(s))>> \o ToLower(Tail(s))

IsSpace(c) == c \in {" ", "\t", "\n", "\r"}

RECURSIVE TrimLeft(_)
TrimLeft(s) ==
    IF s # <<>> /\ IsSpace(Head(s)) THEN TrimLeft(Tail(s)) ELSE s

RECURSIVE TrimRight(_)
TrimRight(s) ==
    IF s # <<>> /\ IsSpace(s[Len(s)]) THEN TrimRight(SubSeq(s, 1, Len(s) - 1)) ELSE s

\* strings.TrimSpace
TrimSpace(s) == TrimRight(TrimLeft(s))

\* strings.HasPrefix
HasPrefix(s, p) == Len(s) >= Len(p) /\ SubSeq(s, 1, Len(p)) = p

\* The position of the first occurrence of character c in s, 0 when absent
IndexChar(s, c) ==
    IF c \in Range(s) THEN CHOOSE i \in 1..Len(s) : s[i] = c /\ \A j \in 1..(i - 1) : s[j] # c
    ELSE 0

RECURSIVE Split(_, _)
\* strings.Split(s, sep) for a one-character separator: always at least one part
Split(s, sep) ==
    LET i == IndexChar(s, sep) IN
    IF i = 0 THEN <<s>>
    ELSE <<SubSeq(s, 1, i - 1)>> \o Split(SubSeq(s, i + 1, Len(s)), sep)

\* strings.SplitN(s, sep, 2) for a one-character separator
SplitN2(s, sep) ==
    LET i == IndexChar(s, sep) IN
    IF i = 0 THEN <<s>>
    ELSE <<SubSeq(s, 1, i - 1), SubSeq(s, i + 1, Len(s))>>

RECURSIVE ReplaceAll(_, _, _)
\* strings.ReplaceAll(s, old, new) for a non-empty old: non-overlapping
\* occurrences, left to right
ReplaceAll(s, old, new) ==
    IF Len(s) < Len(old) THEN s
    ELSE IF HasPrefix(s, old)
         THEN new \o ReplaceAll(SubSeq(s, Len(old) + 1, Len(s)), old, new)
         ELSE <<Head(s)>> \o ReplaceAll(Tail(s), old, new)

RECURSIVE toSnakeCaseFrom(_, _)
toSnakeCaseFrom(s, i) ==
    IF i > Len(s) THEN <<>>
    ELSE (IF i > 1 /\ IsUpper(s[i]) THEN <<"_">> ELSE <<>>)
         \o <<s[i]>> \o toSnakeCaseFrom(s, i + 1)

\* toSnakeCase: an underscore before every upper-case letter but the first
\* character, then lower-cased
toSnakeCase(s) == ToLower(toSnakeCaseFrom(s, 1))

\* toKebabCase
toKebabCase(s) == ReplaceAll(toSnakeCase(s), <<"_">>, <<"-">>)

(***************************************************************************)
(* Packages strconv and time, as far as the code calls them.  Numbers are  *)
(* exact: an integer is a TLA+ integer, a float is a decimal m * 10^e      *)
(* (normalised: m has no trailing zero), a duration is a whole number of   *)
(* milliseconds.  The strings the model feeds them are short and drawn     *)
(* from digits, signs, ".", "e", the unit letters h, m, s and the letters  *)
(* of true/false; on these the operators below compute what the library    *)
(* computes.  (Hex/binary prefixes, "_", inf/nan and the units ns/us are   *)
(* outside that alphabet, and no input is long enough to leave 64 bits.)   *)
(***************************************************************************)
ParseErr == [ok |-> FALSE, v |-> 0]

ParseOk(val) == [ok |-> TRUE, v |-> val]

AllDigits(s) == \A i \in 1..Len(s) : IsDigit(s[i])

RECURSIVE digitsValue(_, _)
digitsValue(s, base) ==
    IF s = <<>> THEN 0
    ELSE digitsValue(SubSeq(s, 1, Len(s) - 1), base) * base + DigitVal(s[Len(s)])

\* strconv.ParseUint(s, base, 64) for base 10 and for base 0 (a leading 0
\* selects octal)
ParseUint(s, base) ==
    IF s = <<>> THEN ParseErr
    ELSE IF base = 0 /\ s[1] = "0"
         THEN IF AllDigits(Tail(s)) /\ \A i \in 2..Len(s) : DigitVal(s[i]) < 8
              THEN ParseOk(digitsValue(Tail(s), 8)) ELSE ParseErr
         ELSE IF AllDigits(s) THEN ParseOk(digitsValue(s, 10)) ELSE ParseErr

\* s without its sign
Unsigned(s) == IF s # <<>> /\ s[1] \in {"+", "-"} THEN Tail(s) ELSE s

\* strconv.ParseInt(s, base, 64): an optional sign, then ParseUint
ParseInt(s, base) ==
    LET signed(un) ==
            IF ~un.ok THEN ParseErr
            ELSE ParseOk(IF s[1] = "-" THEN 0 - un.v ELSE un.v)
    IN  IF s = <<>> THEN ParseErr ELSE signed(ParseUint(Unsigned(s), base))

\* strconv.Atoi
Atoi(s) == ParseInt(s, 10)

\* strconv.ParseBool
ParseBool(s) ==
    IF s \in {<<"1">>, <<"t">>, <<"T">>, <<"T", "R", "U", "E">>,
              <<"t", "r", "u", "e">>, <<"T", "r", "u", "e">>}
    THEN [ok |-> TRUE, v |-> TRUE]
    ELSE IF s \in {<<"0">>, <<"f">>, <<"F">>, <<"F", "A", "L", "S", "E">>,
                   <<"f", "a", "l", "s", "e">>, <<"F", "a", "l", "s", "e">>}
         THEN [ok |-> TRUE, v |-> FALSE]
         ELSE [ok |-> FALSE, v |-> FALSE]

\* strconv.FormatBool
FormatBool(b) == IF b THEN <<"t", "r", "u", "e">> ELSE <<"f", "a", "l", "s", "e">>

RECURSIVE uitoa(_)
uitoa(n) ==
    IF n < 10 THEN <<DigitChars[n + 1]>>
    ELSE uitoa(n \div 10) \o <<DigitChars[(n % 10) + 1]>>

Abs(n) == IF n < 0 THEN 0 - n ELSE n

\* strconv.Itoa / FormatInt(n, 10) / FormatUint(n, 10)
Itoa(n) == (IF n < 0 THEN <<"-">> ELSE <<>>) \o uitoa(Abs(n))

RECURSIVE Pow10(_)
Pow10(n) == IF n = 0 THEN 1 ELSE 10 * Pow10(n - 1)

RECURSIVE normFloat(_, _)
\* the decimal m * 10^e without trailing zeros in m
normFloat(m, e) ==
    IF m = 0 THEN [m |-> 0, e |-> 0]
    ELSE IF m % 10 = 0 THEN normFloat(m \div 10, e + 1)
         ELSE [m |-> m, e |-> e]

FloatZero == [m |-> 0, e |-> 0]

FloatErr == [ok |-> FALSE, v |-> FloatZero]

RECURSIVE digitPrefixLen(_)
\* The length of the longest prefix of s made of digits
digitPrefixLen(s) ==
    IF s # <<>> /\ IsDigit(Head(s)) THEN 1 + digitPrefixLen(Tail(s)) ELSE 0

\* s cut after its first n characters
CutAt(s, n) == [head |-> SubSeq(s, 1, n), rest |-> SubSeq(s, n + 1, Len(s))]

\* s cut after its leading digits
TakeDigits(s) == CutAt(s, digitPrefixLen(s))

\* s cut after its fraction, a "." and digits, when it starts with one
TakeFraction(s) ==
    IF s # <<>> /\ s[1] = "." THEN TakeDigits(Tail(s))
    ELSE [head |-> <<>>, rest |-> s]

\* strconv.ParseFloat(s, 64) on decimal notation:
\* [sign] digits [. digits] [e [sign] digits], with at least one mantissa digit
ParseFloat(s) ==
    LET value(ip, fp, ex) ==
            IF ~ex.ok THEN FloatErr
            ELSE [ok |-> TRUE,
                  v  |-> normFloat((IF s[1] = "-" THEN -1 ELSE 1) * digitsValue(ip \o fp, 10),
                                   ex.v - Len(fp))]
        exponent(ip, fp, rest) ==
            IF Len(ip) + Len(fp) = 0 THEN FloatErr
            ELSE IF rest # <<>> /\ rest[1] \notin {"e", "E"} THEN FloatErr
            ELSE value(ip, fp, IF rest = <<>> THEN ParseOk(0) ELSE ParseInt(Tail(rest), 10))
        fraction(ip, f) == exponent(ip, f.head, f.rest)
        mantissa(i) == fraction(i.head, TakeFraction(i.rest))
    IN  mantissa(TakeDigits(Unsigned(s)))

RECURSIVE zeros(_)
zeros(n) == IF n <= 0 THEN <<>> ELSE <<"0">> \o zeros(n - 1)

\* %e of the digits ds with decimal exponent x: d.ddde+xx
fmtE(ds, x) ==
    <<ds[1]>> \o (IF Len(ds) > 1 THEN <<".">> \o Tail(ds) ELSE <<>>)
    \o <<"e">> \o (IF x < 0 THEN <<"-">> ELSE <<"+">>)
    \o (IF Abs(x) < 10 THEN <<"0">> ELSE <<>>) \o uitoa(Abs(x))

\* %f of the digits ds with the decimal point after dp of them
fmtF(ds, dp) ==
    IF dp <= 0 THEN <<"0", ".">> \o zeros(0 - dp) \o ds
    ELSE IF dp >= Len(ds) THEN ds \o zeros(dp - Len(ds))
    ELSE SubSeq(ds, 1, dp) \o <<".">> \o SubSeq(ds, dp + 1, Len(ds))

\* strconv.FormatFloat(f, 'g', -1, 64): the shortest digits; %e when the
\* decimal exponent is below -4 or at least 6, %f otherwise
FormatFloat(f) ==
    LET fmtG(ds, x) == IF x < -4 \/ x >= 6 THEN fmtE(ds, x) ELSE fmtF(ds, x + 1)
        digits(ds) == fmtG(ds, Len(ds) + f.e - 1)
    IN  IF f.m = 0 THEN <<"0">>
        ELSE (IF f.m < 0 THEN <<"-">> ELSE <<>>) \o digits(uitoa(Abs(f.m)))

RECURSIVE unitPrefixLen(_)
\* The length of the longest prefix of s made of unit characters (neither a
\* digit nor ".")
unitPrefixLen(s) ==
    IF s # <<>> /\ ~IsDigit(Head(s)) /\ Head(s) # "."
    THEN 1 + unitPrefixLen(Tail(s)) ELSE 0

\* time's unit table, in milliseconds
DurationUnits ==
    [u \in {<<"m", "s">>, <<"s">>, <<"m">>, <<"h">>} |->
        IF u = <<"m", "s">> THEN 1 ELSE IF u = <<"s">> THEN 1000
        ELSE IF u = <<"m">> THEN 60000 ELSE 3600000]

RECURSIVE parseDurationParts(_)
\* ([0-9]*(\.[0-9]*)?[a-z]+)+ : the sum of the parts
parseDurationParts(s) ==
    LET sum(ip, fp, scale, rest) ==
            IF ~rest.ok THEN ParseErr
            ELSE ParseOk(digitsValue(ip, 10) * scale
                         + (digitsValue(fp, 10) * scale) \div Pow10(Len(fp)) + rest.v)
        unit(ip, fp, u) ==
            IF Len(ip) + Len(fp) = 0 \/ u.head \notin DOMAIN DurationUnits THEN ParseErr
            ELSE sum(ip, fp, DurationUnits[u.head], parseDurationParts(u.rest))
        fraction(ip, f) == unit(ip, f.head, CutAt(f.rest, unitPrefixLen(f.rest)))
        number(i) == fraction(i.head, TakeFraction(i.rest))
    IN  IF s = <<>> THEN ParseOk(0) ELSE number(TakeDigits(s))

\* time.ParseDuration
ParseDuration(s) ==
    LET signed(r) ==
            IF ~r.ok THEN ParseErr ELSE ParseOk(IF s[1] = "-" THEN 0 - r.v ELSE r.v)
    IN  IF Unsigned(s) = <<"0">> THEN ParseOk(0)
        ELSE IF Unsigned(s) = <<>> THEN ParseErr
        ELSE signed(parseDurationParts(Unsigned(s)))

RECURSIVE fmtFrac(_, _)
\* The digits of a fraction of `width` places with the leading ".", trailing
\* zeros dropped (empty when the fraction is zero)
fmtFrac(n, width) ==
    IF n = 0 THEN <<>>
    ELSE IF n % 10 = 0 THEN fmtFrac(n \div 10, width - 1)
    ELSE <<".">> \o zeros(width - Len(uitoa(n))) \o uitoa(n)

\* time.Duration.String
DurationString(d) ==
    LET hms(secs, ms) ==
            (IF secs >= 3600 THEN uitoa(secs \div 3600) \o <<"h">> ELSE <<>>)
            \o (IF secs >= 60 THEN uitoa((secs \div 60) % 60) \o <<"m">> ELSE <<>>)
            \o uitoa(secs % 60) \o fmtFrac(ms, 3) \o <<"s">>
    IN  IF d = 0 THEN <<"0", "s">>
        ELSE (IF d < 0 THEN <<"-">> ELSE <<>>)
             \o (IF Abs(d) < 1000 THEN uitoa(Abs(d)) \o <<"m", "s">>
                 ELSE hms(Abs(d) \div 1000, Abs(d) % 1000))

(***************************************************************************)
(* Types and values of configuration fields (package reflect).  A type is  *)
(* its reflect.Kind, its name when it is time.Duration or time.Time, and   *)
(* its element type when it is a slice.  A string value is a character     *)
(* sequence, an integer an Int, a float a decimal, a slice a record that   *)
(* tells nil from empty.                                                   *)
(***************************************************************************)
Basic(kind) == [kind |-> kind, named |-> "", elem |-> <<>>]

DurationType == [kind |-> "int64", named |-> "time.Duration", elem |-> <<>>]

TimeType == [kind |-> "struct", named |-> "time.Time", elem |-> <<>>]

SliceOf(t) == [kind |-> "slice", named |-> "", elem |-> <<t>>]

MapType == Basic("map")

SignedKinds == {"int", "int8", "int16", "int32", "int64"}

UnsignedKinds == {"uint", "uint8", "uint16", "uint32", "uint64"}

FloatKinds == {"float32", "float64"}

NilSlice == [nil |-> TRUE, elems |-> <<>>]

\* reflect.Zero
ZeroValue(t) ==
    IF t.kind = "string" THEN <<>>
    ELSE IF t.kind \in SignedKinds \cup UnsignedKinds THEN 0
    ELSE IF t.kind \in FloatKinds THEN FloatZero
    ELSE IF t.kind = "bool" THEN FALSE
    ELSE IF t.kind = "slice" THEN NilSlice
    ELSE "zero"

\* The number of bits of an integer kind (int and uint are 64 bits wide)
KindBits(kind) ==
    IF kind \in {"int8", "uint8"} THEN 8
    ELSE IF kind \in {"int16", "uint16"} THEN 16
    ELSE IF kind \in {"int32", "uint32"} THEN 32
    ELSE 64

RECURSIVE Pow2(_)
Pow2(n) == IF n = 0 THEN 1 ELSE 2 * Pow2(n - 1)

\* reflect.Value.SetInt: the int64 is converted to the field's width, which
\* keeps the low bits (two's complement).  The model's integers stay far
\* below 2^31, so only the 8- and 16-bit conversions can change a value.
SetInt(kind, x) ==
    IF KindBits(kind) >= 32 THEN x
    ELSE LET half == Pow2(KindBits(kind) - 1)
         IN  ((x + half) % (2 * half)) - half

\* reflect.Value.SetUint: the uint64 is converted to the field's width
SetUint(kind, x) ==
    IF KindBits(kind) >= 32 THEN x ELSE x % Pow2(KindBits(kind))

(***************************************************************************)
(* Errors: the message (its format string), the kind and the name it       *)
(* carries, the line number of an env-file error, and the messages it was  *)
(* wrapped in, outermost first.                                            *)
(***************************************************************************)
NoError == [wrap |-> <<>>, msg |-> "", kind |-> "", name |-> <<>>, line |-> 0]

Errorf(msg, kind, name) ==
    [wrap |-> <<>>, msg |-> msg, kind |-> kind, name |-> name, line |-> 0]

Wrap(outer, err) == [err EXCEPT !.wrap = <<outer>> \o @]

\* fmt.Sprintf("%s[%d]", fieldName, i), i counted from 0
ElemName(fieldName, i) == fieldName \o <<"[">> \o Itoa(i) \o <<"]">>

(***************************************************************************)
(* setFieldValue and setSliceValue.  Each takes the field's type and the   *)
(* value the field holds, and yields the error and the value the field     *)
(* holds afterwards.                                                       *)
(***************************************************************************)
RECURSIVE setFieldValue(_, _, _, _)
RECURSIVE setSliceElems(_, _, _, _, _)

\* The loop of setSliceValue from part i on: slice is the slice built so
\* far; a failing part ends the loop with its error
setSliceElems(t, parts, i, slice, fieldName) ==
    LET next(r) ==
            IF r.err # NoError THEN [err |-> r.err, val |-> slice]
            ELSE setSliceElems(t, parts, i + 1, [slice EXCEPT ![i] = r.val], fieldName)
    IN  IF i > Len(parts) THEN [err |-> NoError, val |-> slice]
        ELSE next(setFieldValue(t.elem[1], slice[i], TrimSpace(parts[i]),
                                ElemName(fieldName, i - 1)))

\* reflect.MakeSlice(type, n, n)
MakeSlice(t, n) == [i \in 1..n |-> ZeroValue(t.elem[1])]

\* A variant that stores the partly filled slice in the field when a part
\* fails
setSliceValuePartial(t, old, value, fieldName) ==
    LET set(r) == [err |-> r.err, val |-> [nil |-> FALSE, elems |-> r.val]]
        split(parts) ==
            set(setSliceElems(t, parts, 1, MakeSlice(t, Len(parts)), fieldName))
    IN  IF value = <<>> THEN [err |-> NoError, val |-> old]
        ELSE split(Split(value, ","))

\* setSliceValue
setSliceValue(t, old, value, fieldName) ==
    LET set(r) ==
            IF r.err # NoError THEN [err |-> r.err, val |-> old]
            ELSE [err |-> NoError, val |-> [nil |-> FALSE, elems |-> r.val]]
        split(parts) ==
            set(setSliceElems(t, parts, 1, MakeSlice(t, Len(parts)), fieldName))
    IN  IF value = <<>> THEN [err |-> NoError, val |-> old]
        ELSE split(Split(value, ","))

\* The signed-integer case of setFieldValue for a field that is not a
\* time.Duration
setInt(t, old, value, fieldName) ==
    LET store(n) ==
            IF ~n.ok
            THEN [err |-> Errorf("invalid integer for %s: %v", "", fieldName), val |-> old]
            ELSE [err |-> NoError, val |-> SetInt(t.kind, n.v)]
    IN  store(ParseInt(value, 10))

\* setFieldValue
setFieldValue(t, old, value, fieldName) ==
    LET store(r, msg) ==
            IF ~r.ok THEN [err |-> Errorf(msg, "", fieldName), val |-> old]
            ELSE [err |-> NoError, val |-> r.v]
        storeUint(n) ==
            store([ok |-> n.ok, v |-> SetUint(t.kind, n.v)],
                  "invalid unsigned integer for %s: %v")
    IN  IF t.kind = "string" THEN [err |-> NoError, val |-> value]
        ELSE IF t.kind \in SignedKinds THEN
            IF t = DurationType
            THEN store(ParseDuration(value), "invalid duration for %s: %v")
            ELSE setInt(t, old, value, fieldName)
        ELSE IF t.kind \in UnsignedKinds THEN storeUint(ParseUint(value, 10))
        ELSE IF t.kind \in FloatKinds
            THEN store(ParseFloat(value), "invalid float for %s: %v")
        ELSE IF t.kind = "bool"
            THEN store(ParseBool(value), "invalid boolean for %s: %v")
        ELSE IF t.kind = "slice" THEN setSliceValue(t, old, value, fieldName)
        ELSE [err |-> Errorf("unsupported field type %s for %s", t.kind, fieldName),
              val |-> old]

(***************************************************************************)
(* The configuration structure: a sequence of fields.  A field has its     *)
(* identifier, its type, its struct tags (a tag that is absent reads as    *)
(* the empty string, as reflect.StructTag.Get gives it) and, when it is a  *)
(* nested structure, its own fields.                                       *)
(***************************************************************************)
NoTag == [env |-> <<>>, flag |-> <<>>, default |-> <<>>, required |-> <<>>,
          prefix |-> <<>>]

Leaf(name, type, tag) == [name |-> name, type |-> type, tag |-> tag, fields |-> <<>>]

Nested(name, tag, fields) ==
    [name |-> name, type |-> Basic("struct"), tag |-> tag, fields |-> fields]

\* reflect.Value.CanSet for a field of an addressable struct: the field is
\* exported, i.e. its identifier starts with an upper-case letter
CanSet(field) == IsUpper(field.name[1])

\* field.Kind() == reflect.Struct && fieldType.Type != reflect.TypeOf(time.Time{})
IsNestedStruct(field) == field.type.kind = "struct" /\ field.type # TimeType

RECURSIVE LeafPathsFrom(_, _)
\* The paths (field indices from the root) of the fields that hold a value
LeafPathsFrom(fields, path) ==
    UNION {IF IsNestedStruct(fields[i])
           THEN LeafPathsFrom(fields[i].fields, Append(path, i))
           ELSE {Append(path, i)} : i \in 1..Len(fields)}

LeafPaths(fields) == LeafPathsFrom(fields, <<>>)

RECURSIVE FieldAt(_, _)
\* The field at a path
FieldAt(fields, path) ==
    IF Len(path) = 1 THEN fields[path[1]]
    ELSE FieldAt(fields[path[1]].fields, Tail(path))

\* The structure as `var cfg Config` leaves it
ZeroConfig(fields) == [p \in LeafPaths(fields) |-> ZeroValue(FieldAt(fields, p).type)]

(***************************************************************************)
(* The process environment (package os): the set variables and their       *)
(* values                                                                  *)
(***************************************************************************)
\* os.Getenv
Getenv(env, key) == IF key \in DOMAIN env THEN env[key] ELSE <<>>

\* os.LookupEnv's second result
LookupEnv(env, key) == key \in DOMAIN env

\* A variant of os.Setenv that leaves a variable that is set as it is: the
\* check and the write in one step
SetenvUnlessSet(env, key, value) ==
    [k \in DOMAIN env \cup {key} |-> IF k \in DOMAIN env THEN env[k] ELSE value]

\* os.Setenv
Setenv(env, key, value) ==
    [k \in DOMAIN env \cup {key} |-> IF k = key THEN value ELSE env[k]]

(***************************************************************************)
(* The flag set (package flag): the defined flags by name, each with the   *)
(* kind of its flag.Value and the value it holds                           *)
(***************************************************************************)
\* flag.Value.String
FlagString(f) ==
    IF f.kind = "string" THEN f.val
    ELSE IF f.kind \in {"int", "int64", "uint", "uint64"} THEN Itoa(f.val)
    ELSE IF f.kind = "float64" THEN FormatFloat(f.val)
    ELSE IF f.kind = "bool" THEN FormatBool(f.val)
    ELSE DurationString(f.val)

\* flag.Value.Set: the flag after it, or the failure to parse s
FlagValueSet(f, s) ==
    LET set(r) == [ok |-> r.ok, flag |-> IF r.ok THEN [f EXCEPT !.val = r.v] ELSE f]
    IN  set(IF f.kind = "string" THEN ParseOk(s)
            ELSE IF f.kind \in {"int", "int64"} THEN ParseInt(s, 0)
            ELSE IF f.kind \in {"uint", "uint64"} THEN ParseUint(s, 0)
            ELSE IF f.kind = "float64" THEN ParseFloat(s)
            ELSE IF f.kind = "bool" THEN ParseBool(s)
            ELSE ParseDuration(s))

\* FlagSet.String, Int, ...: the set with the flag defined
Define(flags, name, kind, val) ==
    [n \in DOMAIN flags \cup {name} |->
        IF n = name THEN [kind |-> kind, val |-> val] ELSE flags[n]]

RECURSIVE ParseArgs(_, _)
\* FlagSet.Parse on arguments of the forms -name=value and -name: the flags
\* after it, or the failure (an undefined flag, a value that does not parse,
\* a missing value), on which flag.CommandLine exits the process
ParseArgs(flags, arguments) ==
    LET next(a, r) ==
            IF ~r.ok THEN [ok |-> FALSE, flags |-> flags]
            ELSE ParseArgs([flags EXCEPT ![a.name] = r.flag], Tail(arguments))
        one(a) ==
            IF a.name \notin DOMAIN flags THEN [ok |-> FALSE, flags |-> flags]
            ELSE IF ~a.hasValue /\ flags[a.name].kind # "bool"
            THEN [ok |-> FALSE, flags |-> flags]
            ELSE next(a, FlagValueSet(flags[a.name],
                                      IF a.hasValue THEN a.value ELSE <<"t", "r", "u", "e">>))
    IN  IF arguments = <<>> THEN [ok |-> TRUE, flags |-> flags]
        ELSE one(Head(arguments))

(***************************************************************************)
(* The Loader: l is the Loader's fields (envPrefix, failOnError, envFiles, *)
(* autoLoadEnv) and commandLine, which tells whether l.flagSet is          *)
(* flag.CommandLine.                                                       *)
(***************************************************************************)
TrueTag == <<"t", "r", "u", "e">>

\* getNestedPrefix
getNestedPrefix(field, currentPrefix) ==
    IF field.tag.prefix # <<>> THEN currentPrefix \o field.tag.prefix
    ELSE currentPrefix \o toSnakeCase(field.name) \o <<"_">>

\* The first of the names listed in an env tag, from the i-th on, whose
\* variable (prefixes applied) is not empty; the empty string if none is
RECURSIVE firstSetEnvName(_, _, _, _)
firstSetEnvName(env, envNames, i, fullPrefix) ==
    IF i > Len(envNames) THEN <<>>
    ELSE IF Getenv(env, fullPrefix \o TrimSpace(envNames[i])) # <<>>
    THEN fullPrefix \o TrimSpace(envNames[i])
    ELSE firstSetEnvName(env, envNames, i + 1, fullPrefix)

\* getEnvKey: with an env tag, the first listed name (prefixes applied) whose
\* variable is non-empty, else the first listed name; without one, the
\* upper-cased snake-cased identifier
getEnvKey(l, env, field, prefix) ==
    LET fallback(envNames, hit) ==
            IF hit # <<>> THEN hit
            ELSE l.envPrefix \o prefix \o TrimSpace(envNames[1])
        listed(envNames) ==
            fallback(envNames, firstSetEnvName(env, envNames, 1, l.envPrefix \o prefix))
    IN  IF field.tag.env # <<>> THEN listed(Split(field.tag.env, ","))
        ELSE ToUpper(l.envPrefix \o prefix \o toSnakeCase(field.name))

\* The names getEnvKey considers: the names listed in the env tag with the
\* prefixes applied, or the one name made from the identifier
envCandidates(l, field, prefix) ==
    IF field.tag.env # <<>>
    THEN {l.envPrefix \o prefix \o TrimSpace(n) : n \in Range(Split(field.tag.env, ","))}
    ELSE {ToUpper(l.envPrefix \o prefix \o toSnakeCase(field.name))}

\* The names getEnvKey considers, in the order it considers them
envCandidateNames(l, field, prefix) ==
    IF field.tag.env # <<>>
    THEN [i \in 1..Len(Split(field.tag.env, ",")) |->
              l.envPrefix \o prefix \o TrimSpace(Split(field.tag.env, ",")[i])]
    ELSE <<ToUpper(l.envPrefix \o prefix \o toSnakeCase(field.name))>>

\* getFlagName
getFlagName(field) ==
    IF field.tag.flag # <<>> THEN TrimSpace(Split(field.tag.flag, ",")[1])
    ELSE toKebabCase(field.name)

\* getFlagValue
getFlagValue(flags, name) ==
    IF name \in DOMAIN flags THEN FlagString(flags[name]) ELSE <<>>

\* The default a flag is registered with: the parsed default tag, or the
\* zero value when the tag is empty or does not parse
parsedDefault(r, zero) == IF r.ok THEN r.v ELSE zero

\* The switch of registerFieldFlag on the kind of the field: the kind of
\* flag and the default it is defined with, or no flag for a kind the
\* switch does not list
flagDefault(type, defaultValue) ==
    LET def(k, v) == [ok |-> TRUE, kind |-> k, val |-> v]
    IN  IF type.kind \in {"string", "slice"} THEN def("string", defaultValue)
        ELSE IF type.kind = "int" THEN def("int", parsedDefault(Atoi(defaultValue), 0))
        ELSE IF type = DurationType
            THEN def("duration", parsedDefault(ParseDuration(defaultValue), 0))
        ELSE IF type.kind = "int64"
            THEN def("int64", parsedDefault(ParseInt(defaultValue, 10), 0))
        ELSE IF type.kind \in {"uint", "uint64"}
            THEN def(type.kind, parsedDefault(ParseUint(defaultValue, 10), 0))
        ELSE IF type.kind = "float64"
            THEN def("float64", parsedDefault(ParseFloat(defaultValue), FloatZero))
        ELSE IF type.kind = "bool"
            THEN def("bool", parsedDefault(ParseBool(defaultValue), FALSE))
        ELSE [ok |-> FALSE, kind |-> "", val |-> 0]

\* registerFieldFlag: the error and the flag set afterwards
registerFieldFlag(flags, field, prefix) ==
    LET define(flagName, d) ==
            IF ~d.ok
            THEN [err   |-> Errorf("unsupported flag type %s for field %s",
                                   field.type.kind, field.name),
                  flags |-> flags]
            ELSE [err |-> NoError, flags |-> Define(flags, flagName, d.kind, d.val)]
        named(flagName) ==
            IF flagName = <<>> \/ flagName \in DOMAIN flags
            THEN [err |-> NoError, flags |-> flags]
            ELSE define(flagName, flagDefault(field.type, field.tag.default))
    IN  named(getFlagName(field))

RECURSIVE registerFlagsFrom(_, _, _, _)
\* The loop of registerFlags from field i on
registerFlagsFrom(flags, fields, i, prefix) ==
    LET next(r) ==
            IF r.err # NoError THEN r
            ELSE registerFlagsFrom(r.flags, fields, i + 1, prefix)
        one(field) ==
            next(IF ~CanSet(field) THEN [err |-> NoError, flags |-> flags]
                 ELSE IF IsNestedStruct(field)
                 THEN registerFlagsFrom(flags, field.fields, 1,
                                        getNestedPrefix(field, prefix))
                 ELSE registerFieldFlag(flags, field, prefix))
    IN  IF i > Len(fields) THEN [err |-> NoError, flags |-> flags]
        ELSE one(fields[i])

\* registerFlags
registerFlags(flags, fields, prefix) == registerFlagsFrom(flags, fields, 1, prefix)

\* A variant of the priority of processField that asks the environment
\* before the flag
resolveTiersEnvFirst(flagName, flagValue, envKey, envValue, defaultValue) ==
    IF envKey # <<>> /\ envValue # <<>>
    THEN [found |-> TRUE, value |-> envValue, tier |-> "env"]
    ELSE IF flagName # <<>> /\ flagValue # <<>>
    THEN [found |-> TRUE, value |-> flagValue, tier |-> "flag"]
    ELSE IF defaultValue # <<>>
    THEN [found |-> TRUE, value |-> defaultValue, tier |-> "default"]
    ELSE [found |-> FALSE, value |-> <<>>, tier |-> "none"]

\* A variant of the priority of processField that takes a flag that is
\* defined, whatever it holds
resolveTiersAnyFlag(flagName, flagValue, envKey, envValue, defaultValue) ==
    IF flagName # <<>>
    THEN [found |-> TRUE, value |-> flagValue, tier |-> "flag"]
    ELSE IF envKey # <<>> /\ envValue # <<>>
    THEN [found |-> TRUE, value |-> envValue, tier |-> "env"]
    ELSE IF defaultValue # <<>>
    THEN [found |-> TRUE, value |-> defaultValue, tier |-> "default"]
    ELSE [found |-> FALSE, value |-> <<>>, tier |-> "none"]

\* The priority of processField: 1. flag, 2. environment, 3. default; each
\* only when its value is not the empty string.  flagValue is what
\* getFlagValue gave, envValue what os.Getenv gave.
resolveTiers(flagName, flagValue, envKey, envValue, defaultValue) ==
    IF flagName # <<>> /\ flagValue # <<>>
    THEN [found |-> TRUE, value |-> flagValue, tier |-> "flag"]
    ELSE IF envKey # <<>> /\ envValue # <<>>
    THEN [found |-> TRUE, value |-> envValue, tier |-> "env"]
    ELSE IF defaultValue # <<>>
    THEN [found |-> TRUE, value |-> defaultValue, tier |-> "default"]
    ELSE [found |-> FALSE, value |-> <<>>, tier |-> "none"]

\* What is recorded for a field processField was not called on
NotProcessed ==
    [done |-> FALSE, envKey |-> <<>>, candidates |-> {}, names |-> <<>>,
     prefix |-> <<>>, flagName |-> <<>>,
     flagValue |-> <<>>, envValue |-> <<>>, found |-> FALSE, value |-> <<>>,
     tier |-> "none", err |-> NoError]

\* processField: the error, the value the field holds afterwards, and the
\* locals of the call (the names and raw values it read, what it resolved)
processField(l, flags, env, field, prefix, old) ==
    LET return(envKey, flagName, flagValue, envValue, r, set) ==
            [err |-> set.err, val |-> set.val,
             res |-> [done |-> TRUE, envKey |-> envKey,
                      candidates |-> envCandidates(l, field, prefix),
                      names |-> envCandidateNames(l, field, prefix),
                      prefix |-> prefix,
                      flagName |-> flagName,
                      flagValue |-> flagValue, envValue |-> envValue,
                      found |-> r.found, value |-> r.value, tier |-> r.tier,
                      err |-> set.err]]
        resolved(envKey, flagName, flagValue, envValue, r) ==
            return(envKey, flagName, flagValue, envValue, r,
                   IF field.tag.required = TrueTag /\ ~r.found
                   THEN [err |-> Errorf("required field %s not set", "", field.name),
                         val |-> old]
                   ELSE IF r.found
                   THEN setFieldValue(field.type, old, r.value, field.name)
                   ELSE [err |-> NoError, val |-> old])
        read(envKey, flagName, flagValue, envValue) ==
            resolved(envKey, flagName, flagValue, envValue,
                     resolveTiers(flagName, flagValue, envKey, envValue,
                                  field.tag.default))
        named(envKey, flagName) ==
            read(envKey, flagName,
                 IF flagName # <<>> THEN getFlagValue(flags, flagName) ELSE <<>>,
                 Getenv(env, envKey))
    IN  named(getEnvKey(l, env, field, prefix), getFlagName(field))

\* What processStruct does with the outcome r of processField on the field
\* at path p: the field and the locals are stored, and an error that does
\* not end the walk is written to the diagnostic stream
afterField(l, st, p, r) ==
    [cfg        |-> [st.cfg EXCEPT ![p] = r.val],
     stderr     |-> IF r.err # NoError /\ ~l.failOnError
                    THEN Append(st.stderr, Wrap("config warning: %v", r.err))
                    ELSE st.stderr,
     resolution |-> [st.resolution EXCEPT ![p] = r.res]]

RECURSIVE processStructShared(_, _, _, _, _, _, _, _)
\* A variant of the loop that keeps the prefix of a nested structure it has
\* walked for the fields that follow it
processStructShared(l, flags, env, fields, i, path, prefix, st) ==
    LET next(r, nextPrefix) ==
            IF r.err # NoError THEN r
            ELSE processStructShared(l, flags, env, fields, i + 1, path, nextPrefix, r.st)
        leaf(p, r) ==
            [err |-> IF l.failOnError THEN r.err ELSE NoError,
             st  |-> afterField(l, st, p, r)]
        one(field, p) ==
            IF ~CanSet(field) THEN next([err |-> NoError, st |-> st], prefix)
            ELSE IF IsNestedStruct(field)
            THEN next(processStructShared(l, flags, env, field.fields, 1, p,
                                          getNestedPrefix(field, prefix), st),
                      getNestedPrefix(field, prefix))
            ELSE next(leaf(p, processField(l, flags, env, field, prefix, st.cfg[p])),
                      prefix)
    IN  IF i > Len(fields) THEN [err |-> NoError, st |-> st]
        ELSE one(fields[i], Append(path, i))

RECURSIVE processStructFrom(_, _, _, _, _, _, _, _)
\* The loop of processStruct from field i on.  path is the path of the
\* structure being walked; st is the target (cfg), the diagnostic stream
\* (stderr) and the locals of the processField calls made (resolution).
processStructFrom(l, flags, env, fields, i, path, prefix, st) ==
    LET next(r) ==
            IF r.err # NoError THEN r
            ELSE processStructFrom(l, flags, env, fields, i + 1, path, prefix, r.st)
        leaf(p, r) ==
            [err |-> IF l.failOnError THEN r.err ELSE NoError,
             st  |-> afterField(l, st, p, r)]
        one(field, p) ==
            next(IF ~CanSet(field) THEN [err |-> NoError, st |-> st]
                 ELSE IF IsNestedStruct(field)
                 THEN processStructFrom(l, flags, env, field.fields, 1, p,
                                        getNestedPrefix(field, prefix), st)
                 ELSE leaf(p, processField(l, flags, env, field, prefix, st.cfg[p])))
    IN  IF i > Len(fields) THEN [err |-> NoError, st |-> st]
        ELSE one(fields[i], Append(path, i))

\* processStruct
processStruct(l, flags, env, fields, path, prefix, st) ==
    processStructFrom(l, flags, env, fields, 1, path, prefix, st)

(***************************************************************************)
(* The env files.  fs is the file system: the files that exist, by name,   *)
(* each with its lines (what bufio.Scanner hands out).                     *)
(***************************************************************************)
\* The escapes unquoteValue replaces inside double quotes, in its order
Escapes ==
    << <<<<"\\", "\"">>, <<"\"">>>>, <<<<"\\", "\\">>, <<"\\">>>>,
       <<<<"\\", "n">>, <<"\n">>>>, <<<<"\\", "r">>, <<"\r">>>>,
       <<<<"\\", "t">>, <<"\t">>>> >>

RECURSIVE unescapeFrom(_, _)
\* The strings.ReplaceAll calls of unquoteValue from the i-th on
unescapeFrom(value, i) ==
    IF i > Len(Escapes) THEN value
    ELSE unescapeFrom(ReplaceAll(value, Escapes[i][1], Escapes[i][2]), i + 1)

\* unquoteValue
unquoteValue(value) ==
    IF Len(value) >= 2 /\ value[1] = "\"" /\ value[Len(value)] = "\""
    THEN unescapeFrom(SubSeq(value, 2, Len(value) - 1), 1)
    ELSE IF Len(value) >= 2 /\ value[1] = "'" /\ value[Len(value)] = "'"
    THEN SubSeq(value, 2, Len(value) - 1)
    ELSE value

\* A variant of the end of the loop body that sets the key whether or not
\* it is set already
setenvAlways(env, key, value) ==
    IF key = <<>> \/ value = <<>> THEN [err |-> NoError, env |-> env]
    ELSE [err |-> NoError, env |-> Setenv(env, key, unquoteValue(value))]

\* The end of the body of the loop of loadEnvFile, for a line that split
\* into key and value: the variable is set only if it is not set already
setenvIfUnset(env, key, value) ==
    IF key = <<>> \/ value = <<>> THEN [err |-> NoError, env |-> env]
    ELSE IF ~LookupEnv(env, key)
    THEN [err |-> NoError, env |-> Setenv(env, key, unquoteValue(value))]
    ELSE [err |-> NoError, env |-> env]

\* The body of the loop of loadEnvFile for one line: the error and the
\* environment afterwards
loadEnvLine(env, text, lineNum) ==
    LET split(line, parts) ==
            IF Len(parts) # 2
            THEN [err |-> [Errorf("invalid format at line %d: %s", "", line)
                              EXCEPT !.line = lineNum],
                  env |-> env]
            ELSE setenvIfUnset(env, TrimSpace(parts[1]), TrimSpace(parts[2]))
        trimmed(line) ==
            IF line = <<>> \/ HasPrefix(line, <<"#">>) THEN [err |-> NoError, env |-> env]
            ELSE split(line, SplitN2(line, "="))
    IN  trimmed(TrimSpace(text))

RECURSIVE loadEnvLines(_, _, _)
\* The loop of loadEnvFile from line lineNum on
loadEnvLines(env, lines, lineNum) ==
    LET next(r) ==
            IF r.err # NoError THEN r ELSE loadEnvLines(r.env, lines, lineNum + 1)
    IN  IF lineNum > Len(lines) THEN [err |-> NoError, env |-> env]
        ELSE next(loadEnvLine(env, lines[lineNum], lineNum))

\* loadEnvFile
loadEnvFile(fs, env, filename) ==
    IF filename \notin DOMAIN fs
    THEN [err |-> Errorf("failed to open %s: %w", "", <<filename>>), env |-> env]
    ELSE loadEnvLines(env, fs[filename], 1)

\* The files loadEnvFiles looks for when autoLoadEnv is set
commonEnvFiles == <<".env", ".env.local", ".env.development", ".env.production">>

RECURSIVE loadEnvFilesFrom(_, _, _, _)
\* The loop of loadEnvFiles from file i on
loadEnvFilesFrom(fs, env, filesToLoad, i) ==
    LET next(r) ==
            IF r.err # NoError
            THEN [err |-> Wrap("failed to load %s: %w", r.err), env |-> r.env]
            ELSE loadEnvFilesFrom(fs, r.env, filesToLoad, i + 1)
    IN  IF i > Len(filesToLoad) THEN [err |-> NoError, env |-> env]
        ELSE next(loadEnvFile(fs, env, filesToLoad[i]))

\* A variant that reads the common files that exist before the listed files
loadEnvFilesCommonFirst(l, fs, env) ==
    loadEnvFilesFrom(fs, env,
                     (IF l.autoLoadEnv
                      THEN SelectSeq(commonEnvFiles, LAMBDA f : f \in DOMAIN fs)
                      ELSE <<>>) \o l.envFiles,
                     1)

\* loadEnvFiles: the listed files, then the common files that exist
loadEnvFiles(l, fs, env) ==
    loadEnvFilesFrom(fs, env,
                     l.envFiles \o (IF l.autoLoadEnv
                                    THEN SelectSeq(commonEnvFiles, LAMBDA f : f \in DOMAIN fs)
                                    ELSE <<>>),
                     1)

(***************************************************************************)
(* Load.  s is the state of the process it runs in: the environment, the   *)
(* file system, the flag set with whether flag.Parse has run, the          *)
(* command-line arguments, the target structure (its fields and the values *)
(* it holds) and the diagnostic stream.  The result is the error returned  *)
(* and what Load leaves of that state; exited tells that flag.Parse ended  *)
(* the process, as flag.CommandLine (ExitOnError) does on a bad argument.  *)
(***************************************************************************)
\* The locals of processField before any call of a Load
NoResolution(s) == [p \in DOMAIN s.cfg |-> NotProcessed]

\* Load from `return l.processStruct(v.Elem(), "")`
loadWalk(l, s, env, flags, stderr) ==
    LET return(walk) ==
            [err |-> walk.err, exited |-> FALSE, env |-> env, flags |-> flags,
             parsed |-> s.parsed \/ l.commandLine, cfg |-> walk.st.cfg,
             stderr |-> walk.st.stderr, resolution |-> walk.st.resolution]
    IN  return(processStruct(l, flags, env, s.fields, <<>>, <<>>,
                             [cfg |-> s.cfg, stderr |-> stderr,
                              resolution |-> NoResolution(s)]))

\* Load from the parsing of the command line, flags being the flag set
\* after registerFlags
loadParse(l, s, env, flags, stderr) ==
    LET parsed(parse) ==
            IF ~parse.ok
            THEN [err |-> NoError, exited |-> TRUE, env |-> env, flags |-> parse.flags,
                  parsed |-> TRUE, cfg |-> s.cfg, stderr |-> stderr,
                  resolution |-> NoResolution(s)]
            ELSE loadWalk(l, s, env, parse.flags, stderr)
    IN  parsed(IF l.commandLine /\ ~s.parsed THEN ParseArgs(flags, s.args)
               ELSE [ok |-> TRUE, flags |-> flags])

\* Load from registerFlags, env being the environment after loadEnvFiles
loadRegister(l, s, env, stderr) ==
    LET registered(reg) ==
            IF reg.err # NoError
            THEN [err |-> Wrap("failed to register flags: %w", reg.err),
                  exited |-> FALSE, env |-> env, flags |-> reg.flags,
                  parsed |-> s.parsed, cfg |-> s.cfg, stderr |-> stderr,
                  resolution |-> NoResolution(s)]
            ELSE loadParse(l, s, env, reg.flags, stderr)
    IN  registered(registerFlags(s.flags, s.fields, <<>>))

\* Load on a pointer to a structure
LoadFrom(l, s) ==
    LET loaded(files) ==
            IF files.err # NoError /\ l.failOnError
            THEN [err |-> Wrap("failed to load .env files: %w", files.err),
                  exited |-> FALSE, env |-> files.env, flags |-> s.flags,
                  parsed |-> s.parsed, cfg |-> s.cfg, stderr |-> s.stderr,
                  resolution |-> NoResolution(s)]
            ELSE loadRegister(l, s, files.env,
                     IF files.err # NoError
                     THEN Append(s.stderr,
                                 Wrap("config warning: failed to load .env files: %v",
                                      files.err))
                     ELSE s.stderr)
    IN  loaded(loadEnvFiles(l, s.fs, s.env))

(***************************************************************************)
(* The configurations, command lines, environments and files the model     *)
(* runs Load on.                                                           *)
(***************************************************************************)
\* All functions from a subset of keys to values: the environments that set
\* some of the keys
PartialFunctions(keys, values) == UNION {[K -> values] : K \in SUBSET keys}

Arg(name, value) == [name |-> name, value |-> value, hasValue |-> TRUE]

Loaders(prefixes, fileLists, autos, commandLines) ==
    [envPrefix : prefixes, failOnError : BOOLEAN, envFiles : fileLists,
     autoLoadEnv : autos, commandLine : commandLines]

\* README, "Priority System Example" and "Basic Configuration Loading", and
\* a field without a default
PriorityConfig ==
    <<Leaf(<<"P", "o", "r", "t">>, Basic("int"),
           [NoTag EXCEPT !.env = <<"P", "O", "R", "T">>, !.flag = <<"p", "o", "r", "t">>,
                   !.default = <<"8", "0", "8", "0">>]),
      Leaf(<<"A", "p", "p", "N", "a", "m", "e">>, Basic("string"),
           [NoTag EXCEPT !.env = <<"A", "P", "P", "_", "N", "A", "M", "E">>, !.flag = <<"n", "a",
                   "m", "e">>, !.default = <<"m", "y", "a", "p", "p">>]),
      Leaf(<<"R", "e", "g", "i", "o", "n">>, Basic("string"), [NoTag EXCEPT !.env = <<"R", "E",
              "G", "I", "O", "N">>])>>

PriorityScenario ==
    [fields  |-> PriorityConfig,
     loaders |-> Loaders({<<>>}, {<<>>}, {FALSE}, {TRUE}),
     args    |-> {<<>>, <<Arg(<<"p", "o", "r", "t">>, <<"9", "0", "0", "0">>)>>, <<Arg(<<"n", "a",
             "m", "e">>, <<>>)>>,
                  <<Arg(<<"r", "e", "g", "i", "o", "n">>, <<"e", "u">>)>>, <<Arg(<<"p", "o", "r",
                          "t">>, <<"z">>)>>},
     envs    |-> PartialFunctions({<<"P", "O", "R", "T">>}, {<<"8", "0", "8", "5">>})
                 \cup PartialFunctions({<<"A", "P", "P", "_", "N", "A", "M", "E">>, <<"R", "E",
                         "G", "I", "O", "N">>}, {<<>>, <<"u", "s">>}),
     fss     |-> {<<>>}]

\* README, "Nested Configuration with Prefixes"
ServerConfig ==
    <<Leaf(<<"H", "o", "s", "t">>, Basic("string"),
           [NoTag EXCEPT !.env = <<"H", "O", "S", "T">>, !.default = <<"l", "o", "c", "a", "l",
                   "h", "o", "s", "t">>]),
      Leaf(<<"P", "o", "r", "t">>, Basic("int"), [NoTag EXCEPT !.env = <<"P", "O", "R", "T">>,
              !.default = <<"8", "0", "8", "0">>]),
      Leaf(<<"T", "L", "S">>, Basic("bool"), [NoTag EXCEPT !.env = <<"T", "L", "S">>,
              !.default = <<"f", "a", "l", "s", "e">>])>>

DatabaseConfig ==
    <<Leaf(<<"D", "r", "i", "v", "e", "r">>, Basic("string"),
           [NoTag EXCEPT !.env = <<"D", "R", "I", "V", "E", "R">>, !.default = <<"p", "o", "s",
                   "t", "g", "r", "e", "s">>]),
      Leaf(<<"H", "o", "s", "t">>, Basic("string"),
           [NoTag EXCEPT !.env = <<"H", "O", "S", "T">>, !.default = <<"l", "o", "c", "a", "l",
                   "h", "o", "s", "t">>]),
      Leaf(<<"P", "o", "r", "t">>, Basic("int"), [NoTag EXCEPT !.env = <<"P", "O", "R", "T">>,
              !.default = <<"5", "4", "3", "2">>]),
      Leaf(<<"D", "a", "t", "a", "b", "a", "s", "e">>, Basic("string"),
           [NoTag EXCEPT !.env = <<"D", "A", "T", "A", "B", "A", "S", "E">>, !.required = <<"t",
                   "r", "u", "e">>]),
      Leaf(<<"U", "s", "e", "r", "n", "a", "m", "e">>, Basic("string"),
           [NoTag EXCEPT !.env = <<"U", "S", "E", "R", "N", "A", "M", "E">>, !.required = <<"t",
                   "r", "u", "e">>]),
      Leaf(<<"P", "a", "s", "s", "w", "o", "r", "d">>, Basic("string"),
           [NoTag EXCEPT !.env = <<"P", "A", "S", "S", "W", "O", "R", "D">>, !.required = <<"t",
                   "r", "u", "e">>])>>

NestedConfig ==
    <<Leaf(<<"A", "p", "p", "N", "a", "m", "e">>, Basic("string"),
           [NoTag EXCEPT !.env = <<"A", "P", "P", "_", "N", "A", "M", "E">>, !.default = <<"m",
                   "y", "a", "p", "p">>]),
      Nested(<<"S", "e", "r", "v", "e", "r">>, [NoTag EXCEPT !.prefix = <<"S", "E", "R", "V", "E",
              "R", "_">>], ServerConfig),
      Nested(<<"D", "a", "t", "a", "b", "a", "s", "e">>, [NoTag EXCEPT !.prefix = <<"D", "B",
              "_">>], DatabaseConfig)>>

\* The environments that set some of the variables of the environment full
SubEnvironments(full) == {[k \in K |-> full[k]] : K \in SUBSET DOMAIN full}

NestedScenario ==
    [fields  |-> NestedConfig,
     loaders |-> Loaders({<<>>}, {<<>>}, {FALSE}, {TRUE}),
     args    |-> {<<>>, <<Arg(<<"p", "o", "r", "t">>, <<"7", "0", "0", "0">>)>>},
     envs    |-> SubEnvironments(<<"S", "E", "R", "V", "E", "R", "_", "P", "O", "R",
             "T">> :> <<"9", "0", "9", "0">> @@ <<"D", "B", "_", "P", "O", "R", "T">> :> <<"6",
             "0", "0", "0">>
                                 @@ <<"D", "B", "_", "D", "A", "T", "A", "B", "A", "S",
                                         "E">> :> <<"a", "p", "p">>),
     fss     |-> {<<>>}]

\* Structures nested in structures, without prefix tags, whose leaves have
\* the same identifier, and slices of integers
DeepConfig ==
    <<Nested(<<"O", "u", "t", "e", "r">>, NoTag,
        <<Leaf(<<"N", "a", "m", "e">>, Basic("string"), [NoTag EXCEPT !.default = <<"o">>]),
          Nested(<<"I", "n", "n", "e", "r">>, NoTag,
            <<Leaf(<<"N", "a", "m", "e">>, Basic("string"), [NoTag EXCEPT !.default = <<"i">>]),
              Leaf(<<"S", "i", "z", "e">>, Basic("uint"), [NoTag EXCEPT !.default = <<"4">>])>>)>>),
      Leaf(<<"P", "o", "r", "t", "s">>, SliceOf(Basic("int")), [NoTag EXCEPT !.env = <<"P", "O",
              "R", "T", "S">>]),
      Leaf(<<"L", "a", "s", "t">>, SliceOf(Basic("int")), [NoTag EXCEPT !.default = <<"1", ",",
              "2">>])>>

DeepScenario ==
    [fields  |-> DeepConfig,
     loaders |-> Loaders({<<>>, <<"A", "P", "P", "_">>}, {<<>>}, {FALSE}, {TRUE, FALSE}),
     args    |-> {<<>>},
     envs    |-> SubEnvironments(<<"O", "U", "T", "E", "R", "_", "I", "N", "N", "E", "R", "_", "N",
             "A", "M", "E">> :> <<"e">> @@ <<"P", "O", "R", "T", "S">> :> <<"3", ",", "x">>),
     fss     |-> {<<>>}]

\* README, "All Supported Types": the types registerFieldFlag has a flag for
FlagTypes ==
    {Basic("string"), Basic("int"), Basic("int64"), Basic("uint"), Basic("uint64"),
     Basic("float64"), Basic("bool"), DurationType, SliceOf(Basic("string"))}

\* A structure of one required field of the type, without a default
RequiredConfig(type) ==
    <<Leaf(<<"V", "a", "l", "u", "e">>, type, [NoTag EXCEPT !.required = <<"t", "r", "u", "e">>])>>

RequiredScenario(type) ==
    [fields  |-> RequiredConfig(type),
     loaders |-> Loaders({<<>>}, {<<>>}, {FALSE}, {TRUE}),
     args    |-> {<<>>, <<Arg(<<"v", "a", "l", "u", "e">>, <<"1">>)>>},
     envs    |-> PartialFunctions({<<"V", "A", "L", "U", "E">>}, {<<>>, <<"1">>}),
     fss     |-> {<<>>}]

\* README, "All Supported Types" (int8) and example 10 (a map field): a
\* field of a type registerFieldFlag has no flag for, between two fields
UnsupportedConfig(type) ==
    <<Leaf(<<"F", "i", "r", "s", "t">>, Basic("string"), [NoTag EXCEPT !.default = <<"a">>]),
      Leaf(<<"O", "d", "d">>, type, [NoTag EXCEPT !.env = <<"O", "D", "D">>]),
      Leaf(<<"L", "a", "t", "e", "r">>, Basic("string"), [NoTag EXCEPT !.default = <<"z">>])>>

UnsupportedScenario(type) ==
    [fields  |-> UnsupportedConfig(type),
     loaders |-> Loaders({<<>>}, {<<>>}, {FALSE}, {TRUE}),
     args    |-> {<<>>},
     envs    |-> PartialFunctions({<<"O", "D", "D">>}, {<<"5">>}),
     fss     |-> {<<>>}]

\* Fields bound to variables that env files assign
FilesConfig ==
    <<Leaf(<<"H", "o", "s", "t">>, Basic("string"), [NoTag EXCEPT !.env = <<"H", "O", "S", "T">>]),
      Leaf(<<"K", "e", "y">>, Basic("string"), [NoTag EXCEPT !.env = <<"K", "E", "Y">>])>>

\* The files of the working directory
EnvFileSystem ==
    "a.env" :> <<<<"H", "O", "S", "T", "=", "f", "i", "l", "e", "h", "o", "s", "t">>, <<"#", " ",
            "c", "o", "m", "m", "e", "n", "t">>, <<"K", "E", "Y", "=", "\"", "q", "u", "o", "\\",
            "\"", "t", "e", "d", "\"">>>>
    @@ "b.env" :> <<<<"H", "O", "S", "T", "=", "o", "t", "h", "e", "r">>, <<>>, <<" ", "K", "E",
            "Y", " ", "=", " ", "'", "v", "'", " ">>, <<"E", "M", "P", "T", "Y", "=">>>>
    @@ "bad.env" :> <<<<"K", "E", "Y", "=", "e", "a", "r", "l", "y">>, <<"H", "O", "S", "T">>,
            <<"H", "O", "S", "T", "=", "l", "a", "t", "e">>>>
    @@ ".env" :> <<<<"H", "O", "S", "T", "=", "a", "u", "t", "o">>>>

FilesScenario ==
    [fields  |-> FilesConfig,
     loaders |-> Loaders({<<>>},
                         {<<>>, <<"a.env">>, <<"a.env", "b.env">>, <<"b.env", "a.env">>,
                          <<"bad.env", "a.env">>, <<"missing.env">>},
                         BOOLEAN, {TRUE}),
     args    |-> {<<>>},
     envs    |-> PartialFunctions({<<"H", "O", "S", "T">>}, {<<>>, <<"r", "e", "a", "l">>}),
     fss     |-> {EnvFileSystem, [f \in DOMAIN EnvFileSystem \ {".env"} |-> EnvFileSystem[f]]}]

\* A working directory with a file that assigns a variable twice and with
\* three of the common files
OrderedFileSystem ==
    "dup.env" :> <<<<"K", "E", "Y", "=", "f", "i", "r", "s", "t">>, <<"K", "E", "Y", "=", "s", "e",
            "c", "o", "n", "d">>>>
    @@ ".env" :> <<<<"H", "O", "S", "T", "=", "a", "u", "t", "o">>>>
    @@ ".env.local" :> <<<<"H", "O", "S", "T", "=", "l", "o", "c", "a", "l">>, <<"K", "E", "Y",
            "=", "l", "o", "c", "a", "l", "k", "e", "y">>>>
    @@ ".env.production" :> <<<<"K", "E", "Y", "=", "p", "r", "o", "d">>, <<"H", "O", "S", "T",
            "=", "p", "r", "o", "d">>>>

\* Files that assign the same variables, listed and discovered
FileOrderScenario ==
    [fields  |-> FilesConfig,
     loaders |-> Loaders({<<>>}, {<<>>, <<"dup.env">>}, BOOLEAN, {TRUE}),
     args    |-> {<<>>},
     envs    |-> PartialFunctions({<<"K", "E", "Y">>}, {<<"r", "e", "a", "l">>}),
     fss     |-> {[f \in DOMAIN OrderedFileSystem \ gone |-> OrderedFileSystem[f]] :
                      gone \in {{}, {".env"}, {".env", ".env.local"}}}]

\* A working directory with a file whose values are empty: bare, in double
\* quotes and in single quotes
EmptyValueFileSystem ==
    "empty.env" :> <<<<"E", "M", "P", "T", "Y", "=">>, <<"K", "E", "Y", "=", "\"", "\"">>, <<"H",
            "O", "S", "T", "=", "'", "'">>>>
    @@ "full.env" :> <<<<"E", "M", "P", "T", "Y", "=", "e">>, <<"K", "E", "Y", "=", "k">>, <<"H",
            "O", "S", "T", "=", "h">>>>

\* The file with the empty values, read before or after the other
EmptyValueScenario ==
    [fields  |-> FilesConfig,
     loaders |-> Loaders({<<>>},
                         {<<"empty.env">>, <<"empty.env", "full.env">>,
                          <<"full.env", "empty.env">>},
                         {FALSE}, {TRUE}),
     args    |-> {<<>>},
     envs    |-> PartialFunctions({<<"H", "O", "S", "T">>}, {<<"r", "e", "a", "l">>}),
     fss     |-> {EmptyValueFileSystem}]

\* README, "Multiple Names for Same Field", and a field without a default
\* that lists two names
MultiNameConfig ==
    <<Leaf(<<"P", "o", "r", "t">>, Basic("int"),
           [NoTag EXCEPT !.env = <<"P", "O", "R", "T", ",", "S", "E", "R", "V", "E", "R", "_", "P",
                   "O", "R", "T">>, !.flag = <<"p", "o", "r", "t", ",", "p">>,
                         !.default = <<"8", "0", "8", "0">>]),
      Leaf(<<"H", "o", "s", "t">>, Basic("string"), [NoTag EXCEPT !.env = <<"H", "O", "S", "T",
              ",", " ", "S", "E", "R", "V", "E", "R", "_", "H", "O", "S", "T">>])>>

MultiNameScenario ==
    [fields  |-> MultiNameConfig,
     loaders |-> Loaders({<<>>}, {<<>>}, {FALSE}, {TRUE}),
     args    |-> {<<>>, <<Arg(<<"p", "o", "r", "t">>, <<"7", "0", "0", "0">>)>>},
     envs    |-> SubEnvironments(<<"P", "O", "R", "T">> :> <<"9", "0", "0", "0">> @@ <<"S", "E",
             "R", "V", "E", "R", "_", "P", "O", "R", "T">> :> <<"9", "0", "0", "1">>)
                 \cup PartialFunctions({<<"H", "O", "S", "T">>, <<"S", "E", "R", "V", "E", "R",
                         "_", "H", "O", "S", "T">>}, {<<>>, <<"a">>, <<"b">>}),
     fss     |-> {<<>>}]

\* A nested structure without a prefix tag, with a leaf that has an env tag
\* and a leaf that has none
UntaggedNestedConfig ==
    <<Nested(<<"D", "a", "t", "a", "b", "a", "s", "e">>, NoTag,
        <<Leaf(<<"H", "o", "s", "t">>, Basic("string"), [NoTag EXCEPT !.env = <<"H", "O", "S",
                "T">>]),
          Leaf(<<"U", "s", "e", "r", "N", "a", "m", "e">>, Basic("string"), NoTag)>>)>>

UntaggedNestedScenario ==
    [fields  |-> UntaggedNestedConfig,
     loaders |-> Loaders({<<>>, <<"a", "p", "p", "_">>}, {<<>>}, {FALSE}, {TRUE}),
     args    |-> {<<>>},
     envs    |-> SubEnvironments(<<"D", "A", "T", "A", "B", "A", "S", "E", "_", "H", "O", "S",
             "T">> :> <<"u", "p", "p", "e", "r">>
                                 @@ <<"d", "a", "t", "a", "b", "a", "s", "e", "_", "H", "O", "S",
                                         "T">> :> <<"m", "i", "x", "e", "d">>
                                 @@ <<"D", "A", "T", "A", "B", "A", "S", "E", "_", "U", "S", "E",
                                         "R", "_", "N", "A", "M", "E">> :> <<"u">>
                                 @@ <<"A", "P", "P", "_", "D", "A", "T", "A", "B", "A", "S", "E",
                                         "_", "U", "S", "E", "R", "_", "N", "A", "M",
                                         "E">> :> <<"a", "u">>),
     fss     |-> {<<>>}]

\* Env files that fail to load, for a structure with a map field
FilesUnsupportedScenario ==
    [fields  |-> UnsupportedConfig(MapType),
     loaders |-> Loaders({<<>>}, {<<"missing.env">>, <<"bad.env", "a.env">>}, {FALSE},
                         {TRUE}),
     args    |-> {<<>>},
     envs    |-> {<<>>},
     fss     |-> {EnvFileSystem}]

Scenarios ==
    {PriorityScenario, NestedScenario, DeepScenario, FilesScenario, MultiNameScenario,
     UntaggedNestedScenario, FilesUnsupportedScenario, FileOrderScenario,
     EmptyValueScenario}
    \cup {RequiredScenario(t) : t \in FlagTypes}
    \cup {UnsupportedScenario(t) : t \in {MapType, Basic("int8"), TimeType}}

(***************************************************************************)
(* The state: the Loader, the process it lives in, the target structure,   *)
(* and what the last call of Load returned; and, for the calls of          *)
(* setFieldValue and setSliceValue on a single value (as the tests make    *)
(* them), the value and the last call.                                     *)
(***************************************************************************)
VARIABLES
    loader,      \* the Loader (NewLoader with its options)
    fields,      \* the fields of the target structure's type
    args,        \* the command line (os.Args[1:])
    env,         \* the process environment
    fs,          \* the files that exist
    flags,       \* the flags defined in l.flagSet
    parsed,      \* flag.Parsed()
    cfg,         \* the values the target structure holds, by path
    stderr,      \* what was written to os.Stderr
    resolution,  \* the locals of the processField calls of the last Load
    result,      \* the last call of Load: whether there was one, its error
    loads,       \* the number of calls of Load so far
    exited,      \* the process has exited (flag.Parse on a bad argument)
    envBefore,   \* the environment when the last Load was called
    cfgBefore,   \* the values of the target when the last Load was called
    target,      \* a single reflect.Value: its type and the value it holds
    call,        \* the last call of setFieldValue or setSliceValue on target
    goroutines   \* the goroutines that run Load concurrently, each with its locals

vars == <<loader, fields, args, env, fs, flags, parsed, cfg, stderr, resolution,
          result, loads, exited, envBefore, cfgBefore, target, call, goroutines>>

\* The number of calls of Load the model follows
MaxLoads == 2

NoFlags == <<>>

NoTarget == [type |-> Basic("invalid"), val |-> "zero"]

NoCall ==
    [done |-> FALSE, op |-> "", type |-> Basic("invalid"), old |-> "zero",
     value |-> <<>>, err |-> NoError]

NoResult == [called |-> FALSE, valid |-> FALSE, err |-> NoError]

Init ==
    \E sc \in Scenarios :
        /\ fields = sc.fields
        /\ loader \in sc.loaders
        /\ args \in sc.args
        /\ env \in sc.envs
        /\ fs \in sc.fss
        /\ flags = NoFlags
        /\ parsed = FALSE
        /\ cfg = ZeroConfig(sc.fields)
        /\ stderr = <<>>
        /\ resolution = [p \in LeafPaths(sc.fields) |-> NotProcessed]
        /\ result = NoResult
        /\ loads = 0
        /\ exited = FALSE
        /\ envBefore = env
        /\ cfgBefore = ZeroConfig(sc.fields)
        /\ target = NoTarget
        /\ call = NoCall
        /\ goroutines = <<>>

\* Loader.Load on a pointer to the target structure
Load ==
    /\ ~exited
    /\ loads < MaxLoads
    /\ \E r \in {LoadFrom(loader, [env |-> env, fs |-> fs, flags |-> flags,
                                    parsed |-> parsed, args |-> args, fields |-> fields,
                                    cfg |-> cfg, stderr |-> stderr])} :
           /\ env' = r.env
           /\ flags' = r.flags
           /\ parsed' = r.parsed
           /\ cfg' = r.cfg
           /\ stderr' = r.stderr
           /\ resolution' = r.resolution
           /\ exited' = r.exited
           /\ result' = [called |-> TRUE, valid |-> TRUE, err |-> r.err]
    /\ loads' = loads + 1
    /\ envBefore' = env
    /\ cfgBefore' = cfg
    /\ UNCHANGED <<loader, fields, args, fs, target, call, goroutines>>

\* Loader.Load on something that is not a pointer to a struct
LoadInvalidTarget ==
    /\ ~exited
    /\ loads < MaxLoads
    /\ result' = [called |-> TRUE, valid |-> FALSE,
                  err |-> Errorf("config must be a pointer to a struct", "", <<>>)]
    /\ resolution' = [p \in DOMAIN cfg |-> NotProcessed]
    /\ loads' = loads + 1
    /\ envBefore' = env
    /\ cfgBefore' = cfg
    /\ UNCHANGED <<loader, fields, args, env, fs, flags, parsed, cfg, stderr, exited,
                   target, call, goroutines>>

Next == Load \/ LoadInvalidTarget

Spec == Init /\ [][Next]_vars

(***************************************************************************)
(* setFieldValue and setSliceValue called on a single value, as            *)
(* TestSetFieldValue and TestSetSliceValue call them.                      *)
(***************************************************************************)
\* The types of the values, with the values they may hold before a call
CoerceTargets ==
    [type : {Basic(k) : k \in SignedKinds \cup UnsignedKinds}, val : {0, 7}]
    \cup [type : {DurationType}, val : {0, 5000}]
    \cup [type : {Basic("float64"), Basic("float32")},
          val : {FloatZero, [m |-> 15, e |-> -1]}]
    \cup [type : {Basic("bool")}, val : BOOLEAN]
    \cup [type : {Basic("string")}, val : {<<>>, <<"o", "l", "d">>}]
    \cup [type : {SliceOf(Basic("int")), SliceOf(Basic("int8"))},
          val : {NilSlice, [nil |-> FALSE, elems |-> <<7, 8>>]}]
    \cup [type : {SliceOf(Basic("string"))},
          val : {NilSlice, [nil |-> FALSE, elems |-> <<<<"a">>>>]}]
    \cup [type : {MapType}, val : {"zero"}]

\* The strings the calls pass
CoerceValues ==
    {<<>>, <<"0">>, <<"4", "2">>, <<"-", "1">>, <<"1", "2", "7">>, <<"-", "1", "2", "8">>, <<"1",
            "2", "8">>, <<"2", "0", "0">>, <<"-", "1", "2", "9">>, <<"2", "5", "5">>, <<"2", "5",
            "6">>,
     <<"3", "2", "7", "6", "7">>, <<"3", "2", "7", "6", "8">>, <<"-", "3", "2", "7", "6", "9">>,
             <<"6", "5", "5", "3", "6">>, <<"a", "b", "c">>, <<"1", ".", "5">>, <<"t", "r", "u",
             "e">>, <<"1", "h", "3", "0", "m">>,
     <<"1", ",", "2", ",", "3">>, <<"1", ",", " ", "x", " ", ",", "3">>, <<"1", ",", ",", "3">>,
             <<"5", ",", "3", "0", "0">>}

InitCoerce ==
    /\ target \in CoerceTargets
    /\ call = NoCall
    /\ goroutines = <<>>
    /\ fields = <<>>
    /\ loader \in Loaders({<<>>}, {<<>>}, {TRUE}, {TRUE})
    /\ loader.failOnError
    /\ args = <<>>
    /\ env = <<>>
    /\ fs = <<>>
    /\ flags = NoFlags
    /\ parsed = FALSE
    /\ cfg = <<>>
    /\ stderr = <<>>
    /\ resolution = <<>>
    /\ result = NoResult
    /\ loads = 0
    /\ exited = FALSE
    /\ envBefore = <<>>
    /\ cfgBefore = <<>>

\* The variables of Load, which the calls on a single value leave alone
loadVars == <<loader, fields, args, env, fs, flags, parsed, cfg, stderr, resolution,
              result, loads, exited, envBefore, cfgBefore, goroutines>>

\* l.setFieldValue(field, value, "TestField")
SetFieldValue ==
    /\ \E value \in CoerceValues :
           \E r \in {setFieldValue(target.type, target.val, value, <<"T", "e", "s", "t", "F", "i",
                   "e", "l", "d">>)} :
               /\ target' = [target EXCEPT !.val = r.val]
               /\ call' = [done |-> TRUE, op |-> "setFieldValue", type |-> target.type,
                           old |-> target.val, value |-> value, err |-> r.err]
    /\ UNCHANGED loadVars

\* l.setSliceValue(field, value, "TestSlice")
SetSliceValue ==
    /\ target.type.kind = "slice"
    /\ \E value \in CoerceValues :
           \E r \in {setSliceValue(target.type, target.val, value, <<"T", "e", "s", "t", "S", "l",
                   "i", "c", "e">>)} :
               /\ target' = [target EXCEPT !.val = r.val]
               /\ call' = [done |-> TRUE, op |-> "setSliceValue", type |-> target.type,
                           old |-> target.val, value |-> value, err |-> r.err]
    /\ UNCHANGED loadVars

NextCoerce == SetFieldValue \/ SetSliceValue

SpecCoerce == InitCoerce /\ [][NextCoerce]_vars

(***************************************************************************)
(* unquoteValue called on a single value of a line of an env file.         *)
(***************************************************************************)
\* The longest value passed to unquoteValue
MaxValueLen == 5

\* The characters of the values: the two quotes, the backslash, a letter
\* that names an escape and one that does not
ValueChars == {"\"", "'", "\\", "n", "a"}

\* The values: every string of at most MaxValueLen of these characters
UnquoteValues == UNION {[1..n -> ValueChars] : n \in 0..MaxValueLen}

InitUnquote ==
    /\ target \in [type : {Basic("string")}, val : UnquoteValues]
    /\ call = NoCall
    /\ goroutines = <<>>
    /\ fields = <<>>
    /\ loader \in Loaders({<<>>}, {<<>>}, {TRUE}, {TRUE})
    /\ loader.failOnError
    /\ args = <<>>
    /\ env = <<>>
    /\ fs = <<>>
    /\ flags = NoFlags
    /\ parsed = FALSE
    /\ cfg = <<>>
    /\ stderr = <<>>
    /\ resolution = <<>>
    /\ result = NoResult
    /\ loads = 0
    /\ exited = FALSE
    /\ envBefore = <<>>
    /\ cfgBefore = <<>>

\* value = l.unquoteValue(value)
UnquoteValue ==
    /\ ~call.done
    /\ target' = [target EXCEPT !.val = unquoteValue(target.val)]
    /\ call' = [done |-> TRUE, op |-> "unquoteValue", type |-> target.type,
                old |-> target.val, value |-> target.val, err |-> NoError]
    /\ UNCHANGED loadVars

NextUnquote == UnquoteValue

SpecUnquote == InitUnquote /\ [][NextUnquote]_vars

(***************************************************************************)
(* Several Loads in one process, between which the env files are rewritten *)
(* and a loader with another list of env files is made.                    *)
(***************************************************************************)
\* The env files of the working directory
ReloadFiles == {"a.env", ".env"}

\* What the files may contain
ReloadContents == {<<<<"H", "O", "S", "T", "=", "o", "n", "e">>>>, <<<<"H", "O", "S", "T", "=",
        "t", "w", "o">>, <<"K", "E", "Y", "=", "k">>>>}

\* The lists of env files of the loaders
ReloadLists == {<<>>, <<"a.env">>}

InitReload ==
    /\ fields = FilesConfig
    /\ loader \in Loaders({<<>>}, ReloadLists, BOOLEAN, {TRUE})
    /\ args = <<>>
    /\ env = <<>>
    /\ fs \in [ReloadFiles -> ReloadContents]
    /\ flags = NoFlags
    /\ parsed = FALSE
    /\ cfg = ZeroConfig(FilesConfig)
    /\ stderr = <<>>
    /\ resolution = [p \in LeafPaths(FilesConfig) |-> NotProcessed]
    /\ result = NoResult
    /\ loads = 0
    /\ exited = FALSE
    /\ envBefore = <<>>
    /\ cfgBefore = ZeroConfig(FilesConfig)
    /\ target = NoTarget
    /\ call = NoCall
    /\ goroutines = <<>>

\* An env file is rewritten between two Loads
WriteFile ==
    /\ 0 < loads
    /\ loads < MaxLoads
    /\ \E f \in DOMAIN fs : \E content \in ReloadContents \ {fs[f]} :
           fs' = [fs EXCEPT ![f] = content]
    /\ UNCHANGED <<loader, fields, args, env, flags, parsed, cfg, stderr, resolution,
                   result, loads, exited, envBefore, cfgBefore, target, call,
                   goroutines>>

\* The next Load is that of a loader made with another WithEnvFiles option
NewLoaderEnvFiles ==
    /\ 0 < loads
    /\ loads < MaxLoads
    /\ \E files \in ReloadLists \ {loader.envFiles} :
           loader' = [loader EXCEPT !.envFiles = files]
    /\ UNCHANGED <<fs, fields, args, env, flags, parsed, cfg, stderr, resolution,
                   result, loads, exited, envBefore, cfgBefore, target, call,
                   goroutines>>

NextReload == Load \/ WriteFile \/ NewLoaderEnvFiles

SpecReload == InitReload /\ [][NextReload]_vars

(***************************************************************************)
(* Two goroutines that each call Load of a loader of their own (its own    *)
(* list of env files, its own flag set) on a target of their own, in one   *)
(* process: they share the environment and the files.  A step is what a    *)
(* goroutine does up to and including one call of os.LookupEnv, os.Setenv  *)
(* or os.Getenv, each of which package os runs under its lock.             *)
(***************************************************************************)
\* A target with one field, read by a single os.Getenv
RaceConfig == <<Leaf(<<"K", "e", "y">>, Basic("string"), [NoTag EXCEPT !.env = <<"K">>])>>

\* The files of the working directory
RaceFileSystem ==
    "one.env" :> <<<<"K", "=", "o", "n", "e">>>>
    @@ "two.env" :> <<<<"#", " ", "t", "w", "o">>, <<"K", "=", "t", "w", "o">>>>
    @@ "both.env" :> <<<<"J", "=", "j">>, <<"K", "=", "t", "h", "r", "e", "e">>>>

Goroutines == {1, 2}

\* NewLoader(WithEnvFiles(file), WithAutoLoadEnv(false), WithFlagSet(...))
RaceLoader(file) ==
    [envPrefix |-> <<>>, failOnError |-> TRUE, envFiles |-> <<file>>,
     autoLoadEnv |-> FALSE, commandLine |-> FALSE]

\* A goroutine about to call Load: its loader, where it is in Load, the
\* file and the line it is at, the key and value of the line, the
\* variables it has set, its flag set, its target and the error returned
GoroutineStart(file) ==
    [pc |-> "scan", loader |-> RaceLoader(file), file |-> 1, line |-> 1, key |-> <<>>,
     value |-> <<>>, sets |-> <<>>, flags |-> NoFlags, cfg |-> ZeroConfig(RaceConfig),
     err |-> NoError]

InitRace ==
    /\ goroutines \in [Goroutines -> {GoroutineStart(f) : f \in DOMAIN RaceFileSystem}]
    /\ env \in PartialFunctions({<<"K">>}, {<<"r", "e", "a", "l">>})
    /\ envBefore = env
    /\ fs = RaceFileSystem
    /\ fields = RaceConfig
    /\ loader \in Loaders({<<>>}, {<<>>}, {TRUE}, {TRUE})
    /\ loader.failOnError
    /\ args = <<>>
    /\ flags = NoFlags
    /\ parsed = FALSE
    /\ cfg = <<>>
    /\ stderr = <<>>
    /\ resolution = <<>>
    /\ result = NoResult
    /\ loads = 0
    /\ exited = FALSE
    /\ cfgBefore = <<>>
    /\ target = NoTarget
    /\ call = NoCall

\* The variables the goroutines leave alone
raceVars == <<loader, fields, args, fs, flags, parsed, cfg, resolution, result, loads,
              exited, envBefore, cfgBefore, target, call>>

\* loadEnvFiles fails with the error: Load returns it or writes the warning
\* and goes on
FailedEnvFiles(g, err) ==
    IF goroutines[g].loader.failOnError
    THEN /\ goroutines' = [goroutines EXCEPT
                              ![g].pc = "done",
                              ![g].err = Wrap("failed to load .env files: %w", err)]
         /\ stderr' = stderr
    ELSE /\ goroutines' = [goroutines EXCEPT ![g].pc = "walk"]
         /\ stderr' = Append(stderr,
                             Wrap("config warning: failed to load .env files: %v", err))

\* The goroutine at a line that assigns a variable
AtAssignment(g, assigned) ==
    /\ goroutines' = [goroutines EXCEPT
                         ![g].pc = "lookup",
                         ![g].key = CHOOSE k \in DOMAIN assigned : TRUE,
                         ![g].value = assigned[CHOOSE k \in DOMAIN assigned : TRUE]]
    /\ stderr' = stderr

\* The loops of loadEnvFiles and loadEnvFile up to the call of os.LookupEnv:
\* the next file is opened, the next line is scanned, split and unquoted
ScanLine(g) ==
    /\ goroutines[g].pc = "scan"
    /\ LET me == goroutines[g]
           files == goroutines[g].loader.envFiles
           scanned(r) ==
               IF r.err # NoError
               THEN FailedEnvFiles(g, Wrap("failed to load %s: %w", r.err))
               ELSE IF DOMAIN r.env = {}
               THEN /\ goroutines' = [goroutines EXCEPT ![g].line = me.line + 1]
                    /\ stderr' = stderr
               ELSE AtAssignment(g, r.env)
       IN  IF me.file > Len(files)
           THEN /\ goroutines' = [goroutines EXCEPT ![g].pc = "walk"]
                /\ stderr' = stderr
           ELSE IF files[me.file] \notin DOMAIN fs
           THEN FailedEnvFiles(g, Wrap("failed to load %s: %w",
                                       Errorf("failed to open %s: %w", "",
                                              <<files[me.file]>>)))
           ELSE IF me.line > Len(fs[files[me.file]])
           THEN /\ goroutines' = [goroutines EXCEPT ![g].file = me.file + 1,
                                                    ![g].line = 1]
                /\ stderr' = stderr
           ELSE scanned(loadEnvLine(<<>>, fs[files[me.file]][me.line], me.line))
    /\ UNCHANGED env
    /\ UNCHANGED raceVars

\* _, exists := os.LookupEnv(key)
CheckUnset(g) ==
    /\ goroutines[g].pc = "lookup"
    /\ goroutines' = [goroutines EXCEPT
                         ![g].pc = IF LookupEnv(env, goroutines[g].key)
                                   THEN "scan" ELSE "setenv",
                         ![g].line = IF LookupEnv(env, goroutines[g].key)
                                     THEN goroutines[g].line + 1 ELSE goroutines[g].line]
    /\ UNCHANGED <<env, stderr>>
    /\ UNCHANGED raceVars

\* os.Setenv(key, value)
SetVariable(g) ==
    /\ goroutines[g].pc = "setenv"
    /\ env' = Setenv(env, goroutines[g].key, goroutines[g].value)
    /\ goroutines' = [goroutines EXCEPT
                         ![g].pc = "scan",
                         ![g].line = goroutines[g].line + 1,
                         ![g].sets = Append(goroutines[g].sets, goroutines[g].key)]
    /\ UNCHANGED stderr
    /\ UNCHANGED raceVars

\* The rest of Load: registerFlags on the flag set of the loader, and
\* processStruct, which reads the environment with os.Getenv
WalkStruct(g) ==
    /\ goroutines[g].pc = "walk"
    /\ \E r \in {loadRegister(goroutines[g].loader,
                               [env |-> env, fs |-> fs, flags |-> goroutines[g].flags,
                                parsed |-> FALSE, args |-> <<>>, fields |-> fields,
                                cfg |-> goroutines[g].cfg, stderr |-> stderr],
                               env, stderr)} :
           /\ goroutines' = [goroutines EXCEPT ![g].pc = "done", ![g].flags = r.flags,
                                               ![g].cfg = r.cfg, ![g].err = r.err]
           /\ stderr' = r.stderr
    /\ UNCHANGED env
    /\ UNCHANGED raceVars

NextRace == \E g \in Goroutines : ScanLine(g) \/ CheckUnset(g) \/ SetVariable(g) \/ WalkStruct(g)

SpecRace == InitRace /\ [][NextRace]_vars

(***************************************************************************)
(* Properties.  Those of Load speak of the state after a call of Load on   *)
(* a pointer to a structure that returned; those of the coercion speak of  *)
(* the state after a call of setFieldValue or setSliceValue.               *)
(***************************************************************************)
\* The last call of Load was on a pointer to a structure and returned
LoadReturned == result.called /\ result.valid /\ ~exited

\* The leaves of the target
Leaves == DOMAIN resolution

\* The flag of the name was given on the command line
FlagGiven(name) == \E i \in 1..Len(args) : args[i].name = name

\* The current value of the flag of the leaf at path p
FlagValueOf(p) == getFlagValue(flags, getFlagName(FieldAt(fields, p)))

\* Some candidate environment variable of the leaf at path p is set to a
\* non-empty value
SomeCandidateNonEmpty(p) ==
    \E k \in resolution[p].candidates : Getenv(env, k) # <<>>

\* No candidate environment variable of the leaf at path p is set
NoCandidateSet(p) == \A k \in resolution[p].candidates : k \notin DOMAIN env

\* The value the leaf at path p holds when the raw value is coerced into
\* what it held before the last Load
Coerced(p, raw) ==
    setFieldValue(FieldAt(fields, p).type, cfgBefore[p], raw, FieldAt(fields, p).name).val

\* Path q comes before path p in depth-first declaration order
PathBefore(q, p) ==
    \E i \in 1..Len(q) :
        /\ i <= Len(p)
        /\ q[i] < p[i]
        /\ \A j \in 1..(i - 1) : q[j] = p[j]

\* C1: a leaf whose flag holds a non-empty value and one of whose candidate
\* environment variables is non-empty is resolved from the flag: after Load
\* it holds the flag's value coerced to its type
C1_FlagBeatsEnvironment ==
    \A p \in Leaves :
        (resolution[p].done /\ FlagValueOf(p) # <<>> /\ SomeCandidateNonEmpty(p))
        => /\ resolution[p].tier = "flag"
           /\ resolution[p].value = FlagValueOf(p)
           /\ cfg[p] = Coerced(p, FlagValueOf(p))

\* -port=9000 with PORT=8085: Port is 9000
C1_Witness ==
    /\ LoadReturned
    /\ fields = PriorityConfig
    /\ args = <<Arg(<<"p", "o", "r", "t">>, <<"9", "0", "0", "0">>)>>
    /\ Getenv(env, <<"P", "O", "R", "T">>) = <<"8", "0", "8", "5">>
    /\ resolution[<<1>>].done
    /\ cfg[<<1>>] = 9000

\* C2: a leaf with a non-empty default whose flag was not given on the
\* command line and one of whose candidate environment variables is
\* non-empty holds, after Load, the environment value coerced to its type
C2_EnvironmentBeatsDefault ==
    \A p \in Leaves :
        (/\ LoadReturned
         /\ resolution[p].done
         /\ FieldAt(fields, p).tag.default # <<>>
         /\ ~FlagGiven(getFlagName(FieldAt(fields, p)))
         /\ Getenv(env, resolution[p].envKey) # <<>>)
        => cfg[p] = Coerced(p, Getenv(env, resolution[p].envKey))

\* C3: a leaf with a non-empty default, at any depth, whose flag was not
\* given on the command line and none of whose candidate environment
\* variables is set holds, after Load, its own default coerced to its type
C3_DefaultUsed ==
    \A p \in Leaves :
        (/\ LoadReturned
         /\ resolution[p].done
         /\ FieldAt(fields, p).tag.default # <<>>
         /\ ~FlagGiven(getFlagName(FieldAt(fields, p)))
         /\ NoCandidateSet(p))
        => cfg[p] = Coerced(p, FieldAt(fields, p).tag.default)

\* The files loadEnvFiles reads, in its order
FilesToLoad ==
    loader.envFiles \o (IF loader.autoLoadEnv
                        THEN SelectSeq(commonEnvFiles, LAMBDA f : f \in DOMAIN fs)
                        ELSE <<>>)

\* What a line of an env file says: nothing (blank, comment, empty key or
\* value), something malformed, or KEY=VALUE
LineMeaning(text) ==
    LET parts == SplitN2(TrimSpace(text), "=")
    IN  IF TrimSpace(text) = <<>> \/ HasPrefix(TrimSpace(text), <<"#">>)
        THEN [kind |-> "nothing", key |-> <<>>, value |-> <<>>]
        ELSE IF Len(parts) # 2 THEN [kind |-> "malformed", key |-> <<>>, value |-> <<>>]
        ELSE IF TrimSpace(parts[1]) = <<>> \/ TrimSpace(parts[2]) = <<>>
        THEN [kind |-> "nothing", key |-> <<>>, value |-> <<>>]
        ELSE [kind |-> "assignment", key |-> TrimSpace(parts[1]),
              value |-> unquoteValue(TrimSpace(parts[2]))]

RECURSIVE FileAssignments(_, _, _)
\* The assignments the files make from line n of the f-th file on, in
\* order, up to the first file that is missing or line that is malformed
FileAssignments(files, f, n) ==
    IF f > Len(files) THEN <<>>
    ELSE IF files[f] \notin DOMAIN fs THEN <<>>
    ELSE IF n > Len(fs[files[f]]) THEN FileAssignments(files, f + 1, 1)
    ELSE IF LineMeaning(fs[files[f]][n]).kind = "malformed" THEN <<>>
    ELSE (IF LineMeaning(fs[files[f]][n]).kind = "assignment"
          THEN <<LineMeaning(fs[files[f]][n])>> ELSE <<>>)
         \o FileAssignments(files, f, n + 1)

\* The value of the first assignment to the key among the assignments
FirstValue(assignments, key) ==
    assignments[CHOOSE i \in 1..Len(assignments) :
                    /\ assignments[i].key = key
                    /\ \A j \in 1..(i - 1) : assignments[j].key # key].value

\* The keys the assignments assign
AssignedKeys(assignments) == {assignments[i].key : i \in 1..Len(assignments)}

\* C4: after Load, every variable that was set before it has the value it
\* had, and a leaf resolved from such a variable has that value; a variable
\* that was not set and that the env files assign has the value of the
\* first assignment, and a leaf resolved from it has that value; no other
\* variable is set
C4_EnvFileSetsOnlyUnsetKeys ==
    LoadReturned =>
        /\ \A k \in DOMAIN envBefore : k \in DOMAIN env /\ env[k] = envBefore[k]
        /\ DOMAIN env = DOMAIN envBefore \cup AssignedKeys(FileAssignments(FilesToLoad, 1, 1))
        /\ \A k \in DOMAIN env \ DOMAIN envBefore :
               env[k] = FirstValue(FileAssignments(FilesToLoad, 1, 1), k)
        /\ \A p \in Leaves :
               (resolution[p].done /\ resolution[p].tier = "env")
               => /\ resolution[p].value = env[resolution[p].envKey]
                  /\ cfg[p] = Coerced(p, env[resolution[p].envKey])

\* HOST is not set, b.env (HOST=other) is read before a.env (HOST=filehost):
\* HOST is other and so is the field Host; KEY is v, without its quotes
C4_Witness ==
    /\ LoadReturned
    /\ fields = FilesConfig
    /\ loader.envFiles = <<"b.env", "a.env">>
    /\ <<"H", "O", "S", "T">> \notin DOMAIN envBefore
    /\ Getenv(env, <<"H", "O", "S", "T">>) = <<"o", "t", "h", "e", "r">>
    /\ cfg[<<1>>] = <<"o", "t", "h", "e", "r">>
    /\ cfg[<<2>>] = <<"v">>

\* C5: a required leaf without a default, whose flag was not given on the
\* command line and none of whose candidate environment variables is set:
\* under fail-on-error Load returns the required-field error that names it;
\* under continue-on-error Load returns nil, the message is written to the
\* diagnostic stream and the leaf holds its zero value
C5_RequiredFieldMissing ==
    \A p \in Leaves :
        (/\ LoadReturned
         /\ resolution[p].done
         /\ FieldAt(fields, p).tag.required = TrueTag
         /\ FieldAt(fields, p).tag.default = <<>>
         /\ ~FlagGiven(getFlagName(FieldAt(fields, p)))
         /\ NoCandidateSet(p))
        => IF loader.failOnError
           THEN result.err = Errorf("required field %s not set", "", FieldAt(fields, p).name)
           ELSE /\ result.err = NoError
                /\ \E i \in 1..Len(stderr) :
                       stderr[i] = Wrap("config warning: %v",
                                        Errorf("required field %s not set", "",
                                               FieldAt(fields, p).name))
                /\ cfg[p] = ZeroValue(FieldAt(fields, p).type)

\* The value fits an integer of the kind (the values of the model are far
\* below 2^31 in size, so they fit every kind of 32 bits or more)
FitsKind(kind, v) ==
    IF kind \in SignedKinds
    THEN KindBits(kind) >= 32
         \/ (0 - Pow2(KindBits(kind) - 1) <= v /\ v <= Pow2(KindBits(kind) - 1) - 1)
    ELSE 0 <= v /\ (KindBits(kind) >= 32 \/ v <= Pow2(KindBits(kind)) - 1)

\* C6: setFieldValue on an integer field (not a duration) with a base-10
\* integer succeeds exactly when the integer fits the width and
\* signedness of the field; then the field holds it, otherwise the call
\* fails and the field holds what it held
C6_IntegerRangeChecked ==
    (/\ call.done
     /\ call.op = "setFieldValue"
     /\ call.type.kind \in SignedKinds \cup UnsignedKinds
     /\ call.type # DurationType
     /\ ParseInt(call.value, 10).ok)
    => IF FitsKind(call.type.kind, ParseInt(call.value, 10).v)
       THEN call.err = NoError /\ target.val = ParseInt(call.value, 10).v
       ELSE call.err # NoError /\ target.val = call.old

\* C7: under continue-on-error, Load on a pointer to a structure returns
\* nil and has resolved every leaf
C7_ContinueOnErrorReturnsNil ==
    (LoadReturned /\ ~loader.failOnError)
    => /\ result.err = NoError
       /\ \A p \in Leaves : resolution[p].done

\* The error Load returned is about a field (not about an env file)
FieldErrorReturned ==
    /\ LoadReturned
    /\ result.err # NoError
    /\ (result.err.wrap = <<>> \/ result.err.wrap[1] # "failed to load .env files: %w")

\* The error is about the field of the name, or about an element of it
ErrorOf(err, name) ==
    \/ err.name = name
    \/ /\ Len(err.name) > Len(name)
       /\ SubSeq(err.name, 1, Len(name) + 1) = name \o <<"[">>

\* The leaf at path q was resolved and assigned in the last Load
AssignedInLoad(q) ==
    /\ resolution[q].done
    /\ resolution[q].found => cfg[q] = Coerced(q, resolution[q].value)
    /\ ~resolution[q].found => cfg[q] = cfgBefore[q]

\* C8: under fail-on-error, a field error Load returns is the error of a
\* leaf such that every leaf before it, in depth-first declaration order,
\* was resolved and assigned in this Load, and it and every leaf after it
\* hold what they held before Load
C8_FailFastFrame ==
    (FieldErrorReturned /\ loader.failOnError)
    => \E p \in Leaves :
           /\ ErrorOf(result.err, FieldAt(fields, p).name)
           /\ \A q \in Leaves :
                  IF PathBefore(q, p) THEN AssignedInLoad(q) ELSE cfg[q] = cfgBefore[q]

\* C9: when setFieldValue or setSliceValue returns an error, the value
\* holds what it held before the call
C9_CoercionAllOrNothing ==
    (call.done /\ call.err # NoError) => target.val = call.old

\* setSliceValue on an []int that holds [7, 8] with "1, x ,3": the second
\* element fails after the first converted, the slice still holds [7, 8]
C9_Witness ==
    /\ call.done
    /\ call.op = "setSliceValue"
    /\ call.type = SliceOf(Basic("int"))
    /\ call.value = <<"1", ",", " ", "x", " ", ",", "3">>
    /\ call.err.name = <<"T", "e", "s", "t", "S", "l", "i", "c", "e", "[", "1", "]">>
    /\ target.val = [nil |-> FALSE, elems |-> <<7, 8>>]

\* C10: an empty flag value falls through to the environment, an empty
\* environment value to the default, an empty default to not found; a leaf
\* that is assigned is assigned from a tier whose raw value is not empty,
\* and a leaf for which nothing is found holds what it held
C10_EmptyTierFallsThrough ==
    \A p \in Leaves :
        resolution[p].done
        => /\ (FlagValueOf(p) = <<>> /\ Getenv(env, resolution[p].envKey) # <<>>)
              => /\ resolution[p].tier = "env"
                 /\ resolution[p].value = Getenv(env, resolution[p].envKey)
           /\ (/\ FlagValueOf(p) = <<>>
               /\ Getenv(env, resolution[p].envKey) = <<>>
               /\ FieldAt(fields, p).tag.default # <<>>)
              => /\ resolution[p].tier = "default"
                 /\ resolution[p].value = FieldAt(fields, p).tag.default
           /\ (/\ FlagValueOf(p) = <<>>
               /\ Getenv(env, resolution[p].envKey) = <<>>
               /\ FieldAt(fields, p).tag.default = <<>>)
              => ~resolution[p].found
           /\ resolution[p].found
              => resolution[p].value # <<>> /\ cfg[p] = Coerced(p, resolution[p].value)
           /\ ~resolution[p].found => cfg[p] = cfgBefore[p]

\* -name= with APP_NAME set to the empty string: AppName is its default
C10_Witness ==
    /\ LoadReturned
    /\ fields = PriorityConfig
    /\ args = <<Arg(<<"n", "a", "m", "e">>, <<>>)>>
    /\ <<"A", "P", "P", "_", "N", "A", "M", "E">> \in DOMAIN env
    /\ env[<<"A", "P", "P", "_", "N", "A", "M", "E">>] = <<>>
    /\ resolution[<<2>>].tier = "default"
    /\ cfg[<<2>>] = <<"m", "y", "a", "p", "p">>

\* The value of the first of the names, from the i-th on, whose variable is
\* not empty; the empty string if there is none
RECURSIVE FirstNonEmpty(_, _)
FirstNonEmpty(names, i) ==
    IF i > Len(names) THEN <<>>
    ELSE IF Getenv(env, names[i]) # <<>> THEN Getenv(env, names[i])
    ELSE FirstNonEmpty(names, i + 1)

\* C11: a leaf whose flag was not given on the command line and some of
\* whose candidate environment variables is non-empty is resolved to the
\* value of the first candidate, in declared order, that is non-empty
C11_FirstNonEmptyCandidate ==
    \A p \in Leaves :
        (/\ LoadReturned
         /\ resolution[p].done
         /\ ~FlagGiven(getFlagName(FieldAt(fields, p)))
         /\ SomeCandidateNonEmpty(p))
        => /\ resolution[p].value = FirstNonEmpty(resolution[p].names, 1)
           /\ cfg[p] = Coerced(p, FirstNonEmpty(resolution[p].names, 1))

\* The candidate names of a field before any prefix is applied: the names
\* listed in its env tag, or its snake-cased identifier
OwnCandidateNames(field) ==
    IF field.tag.env # <<>>
    THEN [i \in 1..Len(Split(field.tag.env, ",")) |-> TrimSpace(Split(field.tag.env, ",")[i])]
    ELSE <<toSnakeCase(field.name)>>

\* C12: for every leaf, each environment variable that is looked up is the
\* upper-cased concatenation of the global prefix, the accumulated nested
\* prefix and the candidate name
C12_LookupNameUpperCased ==
    \A p \in Leaves :
        resolution[p].done
        => /\ Len(resolution[p].names) = Len(OwnCandidateNames(FieldAt(fields, p)))
           /\ \A i \in 1..Len(resolution[p].names) :
                  resolution[p].names[i] =
                      ToUpper(loader.envPrefix \o resolution[p].prefix
                              \o OwnCandidateNames(FieldAt(fields, p))[i])
           /\ \E i \in 1..Len(resolution[p].names) :
                  resolution[p].envKey = resolution[p].names[i]

\* The prefix a nested field contributes: its prefix tag as it is, or its
\* snake-cased identifier followed by "_"
OwnPrefix(field) ==
    IF field.tag.prefix # <<>> THEN field.tag.prefix
    ELSE toSnakeCase(field.name) \o <<"_">>

RECURSIVE AncestorsPrefix(_, _)
\* The prefixes of the nested fields on the path to a leaf, from the root
\* down, concatenated
AncestorsPrefix(structFields, path) ==
    IF Len(path) <= 1 THEN <<>>
    ELSE OwnPrefix(structFields[path[1]])
         \o AncestorsPrefix(structFields[path[1]].fields, Tail(path))

\* C13: the accumulated prefix processField is called with for a leaf is
\* the concatenation, from the root down, of the own prefixes of the nested
\* fields that contain it (empty for a top-level leaf)
C13_PrefixHierarchical ==
    \A p \in Leaves :
        resolution[p].done => resolution[p].prefix = AncestorsPrefix(fields, p)

\* Outer.Inner.Name has the prefix outer_inner_, and the top-level Ports,
\* walked after Outer, has none
C13_Witness ==
    /\ LoadReturned
    /\ fields = DeepConfig
    /\ resolution[<<1, 2, 1>>].done
    /\ resolution[<<1, 2, 1>>].prefix = <<"o", "u", "t", "e", "r", "_", "i", "n", "n", "e", "r",
            "_">>
    /\ resolution[<<1, 2, 1>>].envKey = loader.envPrefix \o <<"O", "U", "T", "E", "R", "_", "I",
            "N", "N", "E", "R", "_", "N", "A", "M", "E">>
    /\ resolution[<<2>>].done
    /\ resolution[<<2>>].prefix = <<>>

RECURSIVE FileFailure(_, _, _)
\* Reading the files from line n of the f-th file on meets a file that is
\* missing or a line that is malformed
FileFailure(files, f, n) ==
    IF f > Len(files) THEN FALSE
    ELSE IF files[f] \notin DOMAIN fs THEN TRUE
    ELSE IF n > Len(fs[files[f]]) THEN FileFailure(files, f + 1, 1)
    ELSE IF LineMeaning(fs[files[f]][n]).kind = "malformed" THEN TRUE
    ELSE FileFailure(files, f, n + 1)

\* C14: when loading the env files fails, under fail-on-error Load returns
\* the error and the target holds what it held; under continue-on-error
\* the error is written to the diagnostic stream, every leaf is resolved,
\* and the environment has the assignments read before the failure, which
\* the leaves resolved from the environment use
C14_EnvFileFailure ==
    (LoadReturned /\ FileFailure(FilesToLoad, 1, 1))
    => IF loader.failOnError
       THEN /\ result.err # NoError
            /\ result.err.wrap # <<>>
            /\ result.err.wrap[1] = "failed to load .env files: %w"
            /\ cfg = cfgBefore
            /\ \A p \in Leaves : ~resolution[p].done
       ELSE /\ \E i \in 1..Len(stderr) :
                   /\ stderr[i].wrap # <<>>
                   /\ stderr[i].wrap[1] = "config warning: failed to load .env files: %v"
            /\ \A p \in Leaves : resolution[p].done
            /\ DOMAIN env = DOMAIN envBefore
                            \cup AssignedKeys(FileAssignments(FilesToLoad, 1, 1))
            /\ \A p \in Leaves :
                   resolution[p].tier = "env"
                   => cfg[p] = Coerced(p, env[resolution[p].envKey])

\* The character an escape sequence denotes, by the character after the
\* backslash
Denoted(c) ==
    IF c = "n" THEN "\n" ELSE IF c = "r" THEN "\r" ELSE IF c = "t" THEN "\t" ELSE c

RECURSIVE UnescapeOnePass(_, _)
\* The text from the i-th character on with each escape sequence replaced
\* by the character it denotes, reading left to right and consuming every
\* character once
UnescapeOnePass(s, i) ==
    IF i > Len(s) THEN <<>>
    ELSE IF s[i] = "\\" /\ i < Len(s) /\ s[i + 1] \in {"\"", "\\", "n", "r", "t"}
    THEN <<Denoted(s[i + 1])>> \o UnescapeOnePass(s, i + 2)
    ELSE <<s[i]>> \o UnescapeOnePass(s, i + 1)

\* The reference unquoter
ReferenceUnquote(value) ==
    IF Len(value) >= 2 /\ value[1] = "\"" /\ value[Len(value)] = "\""
    THEN UnescapeOnePass(SubSeq(value, 2, Len(value) - 1), 1)
    ELSE IF Len(value) >= 2 /\ value[1] = "'" /\ value[Len(value)] = "'"
    THEN SubSeq(value, 2, Len(value) - 1)
    ELSE value

\* C15: unquoteValue returns what the reference unquoter returns: inside
\* double quotes the escapes are replaced in one pass that consumes each
\* character once, inside single quotes the text is unchanged, any other
\* value is returned as it is
C15_UnquoteEqualsReference ==
    (call.done /\ call.op = "unquoteValue") => target.val = ReferenceUnquote(call.old)

\* The part-th part of the raw string, coerced on its own as an element
CoercedPart(t, raw, part) ==
    setFieldValue(t.elem[1], ZeroValue(t.elem[1]), TrimSpace(Split(raw, ",")[part]), <<>>)

C17_ErrorNamesFirstCandidate ==
    \A p \in Leaves :
        (LoadReturned /\ resolution[p].done /\ resolution[p].err # NoError)
        => ErrorOf(resolution[p].err, resolution[p].names[1])

\* Load reads line n of the f-th file: the files up to the f-th exist, and
\* no line before it is malformed
LineRead(f, n) ==
    \A g \in 1..f :
        /\ FilesToLoad[g] \in DOMAIN fs
        /\ \A m \in 1..Len(fs[FilesToLoad[g]]) :
               (g < f \/ m < n) => LineMeaning(fs[FilesToLoad[g]][m]).kind # "malformed"

\* Line n of the f-th file assigns the variable
Defines(f, n, key) ==
    /\ LineMeaning(fs[FilesToLoad[f]][n]).kind = "assignment"
    /\ LineMeaning(fs[FilesToLoad[f]][n]).key = key

\* No line that Load reads before line n of the f-th file assigns the variable
EarliestDefinition(f, n, key) ==
    \A g \in 1..f : \A m \in 1..Len(fs[FilesToLoad[g]]) :
        (g < f \/ m < n) => ~Defines(g, m, key)

\* C19: the earliest line, in the order in which Load reads the listed
\* files and then the common files, that assigns a variable not set before
\* Load gives the variable its value, whatever later lines and files
\* assign, and the leaves resolved from the variable have that value
C19_EarliestDefinitionWins ==
    LoadReturned
    => \A f \in 1..Len(FilesToLoad) :
           FilesToLoad[f] \in DOMAIN fs
           => \A n \in 1..Len(fs[FilesToLoad[f]]) :
                  (/\ LineRead(f, n)
                   /\ LineMeaning(fs[FilesToLoad[f]][n]).kind = "assignment"
                   /\ LineMeaning(fs[FilesToLoad[f]][n]).key \notin DOMAIN envBefore
                   /\ EarliestDefinition(f, n, LineMeaning(fs[FilesToLoad[f]][n]).key))
                  => /\ Getenv(env, LineMeaning(fs[FilesToLoad[f]][n]).key)
                        = LineMeaning(fs[FilesToLoad[f]][n]).value
                     /\ \A p \in Leaves :
                            (/\ resolution[p].done
                             /\ resolution[p].tier = "env"
                             /\ resolution[p].envKey = LineMeaning(fs[FilesToLoad[f]][n]).key)
                            => cfg[p] = LineMeaning(fs[FilesToLoad[f]][n]).value

\* dup.env (KEY=first, KEY=second) is listed and .env, .env.local and
\* .env.production exist: KEY is first, from the first line of the listed
\* file, and HOST is auto, from .env
C19_Witness ==
    /\ LoadReturned
    /\ fields = FilesConfig
    /\ loader.envFiles = <<"dup.env">>
    /\ loader.autoLoadEnv
    /\ FilesToLoad = <<"dup.env", ".env", ".env.local", ".env.production">>
    /\ DOMAIN envBefore = {}
    /\ Getenv(env, <<"K", "E", "Y">>) = <<"f", "i", "r", "s", "t">>
    /\ Getenv(env, <<"H", "O", "S", "T">>) = <<"a", "u", "t", "o">>
    /\ cfg[<<1>>] = <<"a", "u", "t", "o">>
    /\ cfg[<<2>>] = <<"f", "i", "r", "s", "t">>

\* C20: in a process that started without the variables and in which only
\* Load writes the environment, a variable that a Load wrote from an env
\* file keeps its value in every later step, and a leaf that a later Load
\* resolves from it gets that value, whatever the files say by then and
\* whichever files are listed
C20_FileValuesSticky ==
    [][\A k \in DOMAIN env :
           /\ k \in DOMAIN env'
           /\ env'[k] = env[k]
           /\ \A p \in DOMAIN resolution' :
                  (/\ loads' = loads + 1
                   /\ resolution'[p].done
                   /\ resolution'[p].tier = "env"
                   /\ resolution'[p].envKey = k)
                  => resolution'[p].value = env[k] /\ cfg'[p] = env[k]]_vars

\* The first Load wrote HOST=one from a.env; a.env then says HOST=two and
\* KEY=k and is read by the second Load, which sets KEY and leaves HOST as
\* it is: the field Host holds one
C20_Witness ==
    /\ loads = 2
    /\ result.called
    /\ result.err = NoError
    /\ loader.envFiles = <<"a.env">>
    /\ ~loader.autoLoadEnv
    /\ fs["a.env"] = <<<<"H", "O", "S", "T", "=", "t", "w", "o">>, <<"K", "E", "Y", "=", "k">>>>
    /\ DOMAIN envBefore = {<<"H", "O", "S", "T">>}
    /\ Getenv(env, <<"H", "O", "S", "T">>) = <<"o", "n", "e">>
    /\ Getenv(env, <<"K", "E", "Y">>) = <<"k">>
    /\ cfg[<<1>>] = <<"o", "n", "e">>
    /\ cfg[<<2>>] = <<"k">>

\* C18: nothing orders the steps of two Loads: a Load that found a
\* variable unset sets it when it comes to run, without looking again, so
\* after that step the variable has the value of its file, whether or not
\* another Load has set the variable in between
C18_UnsynchronisedWrite ==
    [][\A g \in Goroutines :
           (goroutines[g].pc = "setenv" /\ goroutines'[g].pc # "setenv")
           => /\ Getenv(env', goroutines[g].key) = goroutines[g].value
              /\ goroutines[g].value # <<>>]_vars

\* K is not set when the process starts; the first goroutine loads one.env
\* (K=one), the second two.env (K=two); both set K, and the first, whose
\* file says one, has assigned two to its field
C18_Witness ==
    /\ <<"K">> \notin DOMAIN envBefore
    /\ goroutines[1].loader.envFiles = <<"one.env">>
    /\ goroutines[2].loader.envFiles = <<"two.env">>
    /\ goroutines[1].pc = "done"
    /\ goroutines[2].pc = "done"
    /\ goroutines[1].sets = <<<<"K">>>>
    /\ goroutines[2].sets = <<<<"K">>>>
    /\ goroutines[1].err = NoError
    /\ goroutines[1].cfg[<<1>>] = <<"t", "w", "o">>
    /\ goroutines[2].cfg[<<1>>] = <<"t", "w", "o">>
    /\ Getenv(env, <<"K">>) = <<"t", "w", "o">>

\* C21: loading env files never sets a variable to the empty string: every
\* variable that was not set before Load and is set after it has a value
\* that is not empty
C21_NoEmptyValueSet ==
    LoadReturned => \A k \in DOMAIN env \ DOMAIN envBefore : env[k] # <<>>

====
